---- MODULE Spec2Model ----
(***************************************************************************)
(* Verification model of auto-meeting-minutes:                              *)
(*   - the topic-to-timestamp matcher (refineStartTimes.py, utils.py),     *)
(*   - the per-speaker topic segmenter (speaker_summary_utils.py),         *)
(*   - the timestamp consistency verifier (refineStartTimes.py, utils.py), *)
(*   - the chronological reassembler (refineStartTimes.py),                *)
(*   - the timestamp codec and the transcript loaders (utils.py,           *)
(*     refineStartTimes.py, txt2xlsx.py),                                  *)
(*   - the web app's job threads and request handlers (app.py),            *)
(*   - the calendar scheduler and its RSVP polling (send_payloads.py),     *)
(*   - topic detection, summary refinement, topic extraction and time      *)
(*     batches (txt2xlsx.py, refineStartTimes.py, utils.py).               *)
(*                                                                         *)
(* A text is a sequence of whitespace-separated tokens.  Scores that the   *)
(* code computes in floating point are computed here in fixed point:       *)
(* compute_text_similarity in 1/1000, the matcher's combined score in      *)
(* 1/10000.  The input texts are chosen so that no score lies within 1%    *)
(* of a threshold it is compared against.                                  *)
(***************************************************************************)
EXTENDS Integers, Sequences, FiniteSets, TLC

VARIABLES
    pc,                  \* position of the run: which step acted last
    rows,                \* spreadsheet rows read by pd.read_excel
    transcript_entries,  \* list built by the transcript loader
    topic_ref,           \* the topic reference handed to the matcher
    best_match,          \* what find_best_timestamp_match returned
    summary_topics,      \* topics extracted from a summary document
    batches,             \* what create_time_batches returned
    transcript_data,     \* input of enhance_speaker_tracking
    confirmed_topics,    \* output of enhance_speaker_tracking
    speaker_topics,      \* output of txt2xlsx.detect_speaker_topics
    original_text,       \* markdown document read by verifier or reassembler
    content,             \* markdown document they wrote
    seconds_in,          \* number handed to the timestamp codec
    time_str_in,         \* time string handed to the timestamp codec
    encoded,             \* outcome of the codec's seconds-to-string call
    decoded,             \* outcome of the codec's string-to-seconds call
    cwd,                 \* the web process's current working directory
    dirs,                \* directories that exist on the web server's disk
    files,               \* files on the web server's disk, with their writer
    processing_jobs,     \* app.processing_jobs: job id -> ProcessingStatus
    threads,             \* locals and position of each process_url thread
    response,            \* the last HTTP response the web app returned
    events,              \* send_payloads.events, the calendar payloads
    event_index,         \* position of the running loop in its list of events
    created_event_ids,   \* send_payloads.created_event_ids
    calendar,            \* state of the calendar service
    requests,            \* calls made on the calendar service, in order
    attempt,             \* polling round of the RSVP loop
    all_done,            \* the polling round's all_done flag
    REMINDER_SENT        \* (event id, email) pairs already reminded

vars == <<pc, rows, transcript_entries, topic_ref, best_match, summary_topics, batches,
          transcript_data, confirmed_topics, speaker_topics,
          original_text, content,
          seconds_in, time_str_in, encoded, decoded,
          cwd, dirs, files, processing_jobs, threads, response,
          events, event_index, created_event_ids, calendar, requests,
          attempt, all_done, REMINDER_SENT>>

matchVars ==
    <<rows, transcript_entries, topic_ref, best_match, summary_topics, batches>>
segVars == <<transcript_data, confirmed_topics, speaker_topics>>
verVars == <<original_text, content>>
codecVars == <<seconds_in, time_str_in, encoded, decoded>>
webVars == <<cwd, dirs, files, processing_jobs, threads, response>>
calVars == <<events, event_index, created_event_ids, calendar, requests,
             attempt, all_done, REMINDER_SENT>>

\* Python's None where a record is expected
None == [none |-> TRUE]

\* a call either returns a value or raises
Return(v) == [returns |-> v]
Raise(e) == [raises |-> e]

-----------------------------------------------------------------------------
(* Generic sequence helpers                                                *)

RECURSIVE SeqSum(_)
SeqSum(s) == IF s = <<>> THEN 0 ELSE Head(s) + SeqSum(Tail(s))

RECURSIVE Flatten(_)
Flatten(ss) == IF ss = <<>> THEN <<>> ELSE Head(ss) \o Flatten(Tail(ss))

Range(s) == {s[i] : i \in DOMAIN s}

Count(s, w) == Cardinality({i \in DOMAIN s : s[i] = w})

SeqsUpTo(S, n) == UNION {[1..k -> S] : k \in 0..n}

\* sorted(..., key=lambda x: x['seconds']) and list.sort with that key:
\* ascending and stable.  Element i goes to position 1 + the number of
\* elements that must precede it.
SortedPos(s, i) ==
    1 + Cardinality({j \in DOMAIN s :
                        \/ s[j].seconds < s[i].seconds
                        \/ s[j].seconds = s[i].seconds /\ j < i})

StableSort(s) ==
    [p \in DOMAIN s |-> s[CHOOSE i \in DOMAIN s : SortedPos(s, i) = p]]

\* floor(sqrt(n)) by bisection
RECURSIVE SqrtBetween(_, _, _)
SqrtBetween(n, lo, hi) ==
    IF hi - lo <= 1 THEN lo
    ELSE LET mid == (lo + hi) \div 2
         IN  IF mid * mid <= n THEN SqrtBetween(n, mid, hi)
                               ELSE SqrtBetween(n, lo, mid)

ISqrt(n) == SqrtBetween(n, 0, 46341)

-----------------------------------------------------------------------------
(* Tokens                                                                  *)

\* nltk's English stop words among the tokens used
StopWords == {"the", "we", "for", "more", "about"}

\* punctuation-only tokens: removed by preprocess_text, not matched by the
\* vectorizer's token pattern, rejected by str.isalnum
PunctTokens == {"--"}

\* str.lower() on a token
Lower(t) == IF t = "Budget" THEN "budget" ELSE t

LowerAll(text) == [i \in DOMAIN text |-> Lower(text[i])]

-----------------------------------------------------------------------------
(* Text processing: refineStartTimes.py                                    *)

\* re.sub(r'[^a-zA-Z0-9\s]', ' ', text.lower()), whitespace collapsed:
\* tokens are lowered and punctuation-only tokens disappear
preprocess_text(text) ==
    SelectSeq(LowerAll(text), LAMBDA t : t \notin PunctTokens)

top_n == 10

\* The top_n most frequent non-stop-word tokens; sorted() is stable, so equal
\* frequencies keep the order of first appearance.  Only the set of keywords
\* and its size are used by the callers.
extract_keywords(text) ==
    LET words == SelectSeq(LowerAll(text),
                     LAMBDA w : w \notin PunctTokens /\ w \notin StopWords)
        first(w) == CHOOSE i \in DOMAIN words :
                        words[i] = w /\ \A j \in 1..(i - 1) : words[j] # w
        rank(w) == Cardinality({v \in Range(words) :
                        \/ Count(words, v) > Count(words, w)
                        \/ Count(words, v) = Count(words, w) /\ first(v) < first(w)})
    IN  {w \in Range(words) : rank(w) < top_n}

\* single-character tokens: not matched by TfidfVectorizer's token pattern
\* (?u)\b\w\w+\b
ShortWords == {"x"}

\* the terms TfidfVectorizer extracts from a document
VecTokens(text) ==
    SelectSeq(LowerAll(text), LAMBDA t : t \notin PunctTokens /\ t \notin ShortWords)

\* Squared smoothed idf over the two documents, in 1/100:
\* (ln(3/(1+df)) + 1)^2 is 1 for a term of both documents and
\* (1 + ln 1.5)^2 = 1.9753 for a term of one document only.
IdfSqBoth == 100
IdfSqOne == 198

\* Cosine of the two l2-normalised TF-IDF rows, in 1/1000.  An empty text,
\* an empty vocabulary (ValueError, caught) and a row without terms give 0.
compute_text_similarity(text1, text2) ==
    IF text1 = <<>> \/ text2 = <<>> THEN 0
    ELSE LET t1 == VecTokens(text1)
             t2 == VecTokens(text2)
             both == Range(t1) \cap Range(t2)
             \* sum over the terms of tf1 * tf2, taken position by position
             dot == SeqSum([i \in DOMAIN t1 |-> Count(t2, t1[i])])
             \* sum over the terms of (tf * idf)^2, taken position by position
             normsq(t) == SeqSum([i \in DOMAIN t |->
                              Count(t, t[i]) *
                              (IF t[i] \in both THEN IdfSqBoth ELSE IdfSqOne)])
         IN  IF dot = 0 THEN 0
             ELSE (dot * 100000) \div ISqrt(normsq(t1) * normsq(t2))

-----------------------------------------------------------------------------
(* Topic-to-timestamp matcher                                              *)

Max(a, b) == IF a >= b THEN a ELSE b
Min(a, b) == IF a <= b THEN a ELSE b

\* Mutant of MatchScore: the overlap is divided by the larger of the two
\* keyword counts.
MatchScore_SymmetricNorm(processed_topic, topic_keywords, processed_entry) ==
    LET keyword_overlap ==
            Cardinality(topic_keywords \cap extract_keywords(processed_entry))
        larger == IF Cardinality(topic_keywords)
                         >= Cardinality(extract_keywords(processed_entry))
                      THEN Cardinality(topic_keywords)
                      ELSE Cardinality(extract_keywords(processed_entry))
    IN  7 * compute_text_similarity(processed_topic, processed_entry)
        + (3000 * keyword_overlap) \div (IF larger >= 1 THEN larger ELSE 1)

\* refineStartTimes.py line 145, in 1/10000:
\* (0.7 * similarity) + (0.3 * (keyword_overlap / max(len(topic_keywords), 1)))
MatchScore(processed_topic, topic_keywords, processed_entry) ==
    LET keyword_overlap ==
            Cardinality(topic_keywords \cap extract_keywords(processed_entry))
    IN  7 * compute_text_similarity(processed_topic, processed_entry)
        + (3000 * keyword_overlap) \div Max(Cardinality(topic_keywords), 1)

\* The loop of lines 129-150 over speaker_entries[i..]; the pair carried is
\* (index of best_match or 0 for None, highest_score).
RECURSIVE MatchLoop(_, _, _, _, _)
MatchLoop(speaker_entries, processed_topic, topic_keywords, i, acc) ==
    IF i > Len(speaker_entries) THEN acc
    ELSE LET processed_entry == preprocess_text(speaker_entries[i].text)
             score == MatchScore(processed_topic, topic_keywords, processed_entry)
         IN  IF processed_entry = <<>>
                 THEN MatchLoop(speaker_entries, processed_topic, topic_keywords,
                                i + 1, acc)
             ELSE IF score > acc[2]
                 THEN MatchLoop(speaker_entries, processed_topic, topic_keywords,
                                i + 1, <<i, score>>)
             ELSE MatchLoop(speaker_entries, processed_topic, topic_keywords,
                            i + 1, acc)

\* Mutant of LowScoreFallback: the cutoff at 0.1 is forgotten.
LowScoreFallback_NoCutoff(speaker_entries, acc) ==
    IF acc[1] = 0 THEN speaker_entries[1]
    ELSE speaker_entries[acc[1]]

\* "if best_match is None or highest_score < 0.1: return speaker_entries[0]"
LowScoreFallback(speaker_entries, acc) ==
    IF acc[1] = 0 \/ acc[2] < 1000 THEN speaker_entries[1]
    ELSE speaker_entries[acc[1]]

\* Mutant of find_best_timestamp_match: the speaker filter is forgotten.
find_best_timestamp_match_unfiltered(topic_text, speaker, entries) ==
    LET processed_topic == preprocess_text(topic_text)
        topic_keywords == extract_keywords(processed_topic)
    IN  IF entries = <<>> THEN None
        ELSE IF topic_keywords = {} THEN entries[1]
        ELSE LowScoreFallback(entries,
                 MatchLoop(entries, processed_topic, topic_keywords,
                           1, <<0, -10000>>))

\* refineStartTimes.find_best_timestamp_match
find_best_timestamp_match(topic_text, speaker, entries) ==
    LET speaker_entries == SelectSeq(entries, LAMBDA e : e.name = speaker)
        processed_topic == preprocess_text(topic_text)
        topic_keywords == extract_keywords(processed_topic)
    IN  IF speaker_entries = <<>> THEN None
        ELSE IF topic_keywords = {} THEN speaker_entries[1]
        ELSE LowScoreFallback(speaker_entries,
                 MatchLoop(speaker_entries, processed_topic, topic_keywords,
                           1, <<0, -10000>>))

\* set(text.lower().split())
WordSet(text) == Range(LowerAll(text))

\* The loop of utils.py lines 354-363; the triple carried is (index of
\* best_match or 0, overlap, shorter length) with highest_score =
\* overlap / shorter length, compared exactly by cross-multiplication.
RECURSIVE BasicLoop(_, _, _, _)
BasicLoop(speaker_entries, topic_words, i, acc) ==
    IF i > Len(speaker_entries) THEN acc
    ELSE LET entry_words == WordSet(speaker_entries[i].text)
             overlap == Cardinality(topic_words \cap entry_words)
             shorter == Min(Cardinality(topic_words), Cardinality(entry_words))
         IN  IF shorter > 0 /\ overlap * acc[3] > acc[2] * shorter
                 THEN BasicLoop(speaker_entries, topic_words, i + 1,
                                <<i, overlap, shorter>>)
             ELSE BasicLoop(speaker_entries, topic_words, i + 1, acc)

\* utils.find_best_timestamp_match when refineStartTimes cannot be used
basic_matching(topic_content, speaker_entries) ==
    LET topic_entries == SelectSeq(speaker_entries, LAMBDA e : e.topic # "")
        acc == BasicLoop(speaker_entries, WordSet(topic_content), 1, <<0, 0, 1>>)
    IN  IF topic_entries # <<>> THEN topic_entries[1]
        ELSE IF acc[1] # 0 /\ 10 * acc[2] > acc[3] THEN speaker_entries[acc[1]]
        ELSE speaker_entries[1]

\* utils.find_best_timestamp_match; refine_usable tells whether the import
\* of refineStartTimes and the call into it succeeded
utils_find_best_timestamp_match(topic_content, speaker_name, data, refine_usable) ==
    LET speaker_entries == SelectSeq(data, LAMBDA e : e.name = speaker_name)
    IN  IF speaker_entries = <<>> THEN None
        ELSE IF refine_usable
            THEN find_best_timestamp_match(topic_content, speaker_name, speaker_entries)
        ELSE basic_matching(topic_content, speaker_entries)

-----------------------------------------------------------------------------
(* Timestamp codec: utils.py.  A display string "H:MM:SS" is the triple    *)
(* <<digits of H, MM, SS>>, so that "00:00:00" and "0:00:00" differ.       *)

\* pandas' missing value in a numeric column; no seconds value of a run equals it
NaN == -999999

\* pd.notna on a Seconds cell, a Name cell and a Text cell: read_excel turns
\* an empty cell into a missing value
notna(v) == v # NaN
notna_name(v) == v # ""
notna_text(v) == v # <<>>

RECURSIVE Digits(_)
Digits(n) == IF n < 10 THEN <<n>> ELSE Append(Digits(n \div 10), n % 10)

RECURSIVE DigitsValue(_)
DigitsValue(d) ==
    IF d = <<>> THEN 0 ELSE 10 * DigitsValue(SubSeq(d, 1, Len(d) - 1)) + d[Len(d)]

\* f"{hours}:{minutes:02d}:{seconds:02d}"
seconds_to_time_str(seconds) ==
    IF ~notna(seconds) THEN <<(<<0, 0>>), 0, 0>>
    ELSE <<Digits(seconds \div 3600), (seconds % 3600) \div 60, seconds % 60>>

-----------------------------------------------------------------------------
(* Transcript loaders                                                      *)

Names == {"Alice", "Bob"}

\* Texts of transcript rows and of topic references in the matcher runs
EntryTexts ==
    { <<"--">>,
      <<"the", "budget", "Budget">>,
      <<"the", "index", "index">> }

TopicTexts ==
    { <<>>,
      <<"the">>,
      <<"the", "budget", "budget">>,
      <<"--", "index">> }

MatchSeconds == {120, 700}

MaxRows == 2

SheetRows == [Name : Names, Seconds : MatchSeconds, Text : EntryTexts]

\* Mutant of RowOk: a row without text is kept.
RowOk_IgnoresText(row) == notna_name(row.Name) /\ notna(row.Seconds)

\* "pd.notna(row['Name']) and pd.notna(row['Seconds']) and pd.notna(row['Text'])"
RowOk(row) == notna_name(row.Name) /\ notna(row.Seconds) /\ notna_text(row.Text)

\* "'Name' in df.columns and 'Seconds' in df.columns and 'Text' in df.columns";
\* the columns of a sheet are the fields of its rows
HasColumns(sheet) ==
    \A i \in DOMAIN sheet : {"Name", "Seconds", "Text"} \subseteq DOMAIN sheet[i]

\* refineStartTimes.py lines 176-191 and 340-355: one entry per complete row,
\* in the order of the rows of the sheet; time_str is the cell of the sheet's
\* Time column, None when the sheet has no such column
refine_load(sheet) ==
    LET idx == SelectSeq([i \in DOMAIN sheet |-> i], LAMBDA i : RowOk(sheet[i]))
    IN  [k \in DOMAIN idx |->
            [name |-> sheet[idx[k]].Name,
             seconds |-> sheet[idx[k]].Seconds,
             time_str |-> IF "Time" \in DOMAIN sheet[idx[k]]
                              THEN sheet[idx[k]].Time ELSE None,
             text |-> sheet[idx[k]].Text,
             row_index |-> idx[k] - 1]]

\* utils.extract_transcript_data; topic_col is the sheet's Topic column, ""
\* standing for a missing cell (the entry then has no 'topic' key)
extract_transcript_data(sheet, topic_col) ==
    LET idx == SelectSeq([i \in DOMAIN sheet |-> i], LAMBDA i : RowOk(sheet[i]))
        data == [k \in DOMAIN idx |->
                    [name |-> sheet[idx[k]].Name,
                     seconds |-> sheet[idx[k]].Seconds,
                     time_str |-> seconds_to_time_str(sheet[idx[k]].Seconds),
                     text |-> sheet[idx[k]].Text,
                     row_index |-> idx[k] - 1,
                     topic |-> topic_col[idx[k]]]]
    IN  StableSort(data)

-----------------------------------------------------------------------------
(* Matcher runs                                                            *)

IdleSeg ==
    transcript_data = <<>> /\ confirmed_topics = <<>> /\ speaker_topics = <<>>
IdleVer == original_text = <<>> /\ content = <<>>
IdleCodec ==
    seconds_in = 0 /\ time_str_in = <<>> /\ encoded = None /\ decoded = None
IdleWeb ==
    /\ cwd = <<>> /\ dirs = {} /\ files = {}
    /\ processing_jobs = <<>> /\ threads = <<>> /\ response = None
IdleCal ==
    /\ events = <<>> /\ event_index = 0 /\ created_event_ids = <<>>
    /\ calendar = None /\ requests = <<>>
    /\ attempt = 0 /\ all_done = FALSE /\ REMINDER_SENT = {}
IdleMatch ==
    /\ rows = <<>> /\ transcript_entries = <<>> /\ topic_ref = None
    /\ best_match = None /\ summary_topics = <<>> /\ batches = <<>>

InitMatch ==
    /\ pc = "start"
    /\ rows \in SeqsUpTo(SheetRows, MaxRows)
    /\ transcript_entries = <<>>
    /\ topic_ref = None
    /\ best_match = None
    /\ summary_topics = <<>>
    /\ batches = <<>>
    /\ IdleSeg
    /\ IdleVer
    /\ IdleCodec
    /\ IdleWeb
    /\ IdleCal

\* refine_start_times / refine_from_summaries read the sheet
LoadRefine ==
    /\ pc = "start"
    /\ IF HasColumns(rows)
           THEN /\ transcript_entries' = refine_load(rows)
                /\ pc' = "loaded_refine"
           ELSE /\ transcript_entries' = Raise("ValueError")
                /\ pc' = "load_failed"
    /\ UNCHANGED <<rows, summary_topics, batches, topic_ref, best_match, segVars, verVars,
                   codecVars, webVars, calVars>>

\* callers of utils.extract_transcript_data read the sheet
LoadUtils ==
    /\ pc = "start"
    /\ IF HasColumns(rows)
           THEN /\ \E topic_col \in [DOMAIN rows -> {"", "T"}] :
                       transcript_entries' = extract_transcript_data(rows, topic_col)
                /\ pc' = "loaded_utils"
           ELSE /\ transcript_entries' = Raise("ValueError")
                /\ pc' = "load_failed"
    /\ UNCHANGED <<rows, summary_topics, batches, topic_ref, best_match, segVars, verVars,
                   codecVars, webVars, calVars>>

\* refineStartTimes.py lines 212 and 423
RefineMatch ==
    /\ pc = "loaded_refine"
    /\ \E topic_text \in TopicTexts, speaker \in Names :
           /\ topic_ref' = [topic_text |-> topic_text, speaker |-> speaker]
           /\ best_match' =
                  find_best_timestamp_match(topic_text, speaker, transcript_entries)
    /\ pc' = "matched_refine"
    /\ UNCHANGED <<rows, summary_topics, batches, transcript_entries, segVars, verVars,
                   codecVars, webVars, calVars>>

\* utils.py lines 418 and 464
UtilsMatch ==
    /\ pc = "loaded_utils"
    /\ \E topic_text \in TopicTexts, speaker \in Names, refine_usable \in BOOLEAN :
           /\ topic_ref' = [topic_text |-> topic_text, speaker |-> speaker]
           /\ best_match' =
                  utils_find_best_timestamp_match(topic_text, speaker,
                                                  transcript_entries, refine_usable)
    /\ pc' = "matched_utils"
    /\ UNCHANGED <<rows, summary_topics, batches, transcript_entries, segVars, verVars,
                   codecVars, webVars, calVars>>

NextMatch == LoadRefine \/ LoadUtils \/ RefineMatch \/ UtilsMatch

SpecMatch == InitMatch /\ [][NextMatch]_vars

-----------------------------------------------------------------------------
(* Claims about the matcher                                                *)

\* the reference's speaker's utterances, in the order the matcher got them
RefSpeakerEntries ==
    SelectSeq(transcript_entries, LAMBDA e : e.name = topic_ref.speaker)

RefKeywords == extract_keywords(preprocess_text(topic_ref.topic_text))

\* score of an utterance against the reference's content text
RefScore(e) ==
    MatchScore(preprocess_text(topic_ref.topic_text), RefKeywords,
               preprocess_text(e.text))

IsTopScorer(e) == \A o \in Range(RefSpeakerEntries) : RefScore(e) >= RefScore(o)

TopScore == RefScore(CHOOSE e \in Range(RefSpeakerEntries) : IsTopScorer(e))

ScoredCase ==
    /\ pc = "matched_refine"
    /\ RefKeywords # {}
    /\ RefSpeakerEntries # <<>>

\* C1 as stated: with keywords and at least one utterance of the speaker, the
\* matcher returns an utterance of the speaker with the maximum score, also
\* when that score is below 0.1.
C1_ReturnsBestAlways ==
    ScoredCase =>
        /\ best_match \in Range(RefSpeakerEntries)
        /\ IsTopScorer(best_match)

\* C1 amended: the matcher returns a top-scoring utterance of the speaker when
\* the top score is at least 0.1, and the first of the speaker's utterances in
\* the list it was given when the top score is below 0.1.
C1_BestOrFirstBelowCutoff ==
    ScoredCase =>
        IF TopScore >= 1000
            THEN best_match \in Range(RefSpeakerEntries) /\ IsTopScorer(best_match)
            ELSE best_match = RefSpeakerEntries[1]

\* a low but positive top score, reached by an utterance that is not the first
C1_Witness ==
    /\ ScoredCase
    /\ TopScore > 0
    /\ TopScore < 1000
    /\ ~IsTopScorer(RefSpeakerEntries[1])
    /\ best_match = RefSpeakerEntries[1]

\* C2 as stated: among the speaker's utterances that share the top score the
\* matcher returns the one with the smallest seconds, whichever loader built
\* the list.  Stated for a top score of at least 0.1, where the low-score
\* fallback of C1 plays no part.
C2_TieBreakSmallestSeconds ==
    (/\ pc = "matched_refine"
     /\ RefKeywords # {}
     /\ RefSpeakerEntries # <<>>
     /\ TopScore >= 1000
     /\ Cardinality({i \in DOMAIN RefSpeakerEntries :
                        IsTopScorer(RefSpeakerEntries[i])}) >= 2)
    => /\ best_match \in Range(RefSpeakerEntries)
       /\ IsTopScorer(best_match)
       /\ \A o \in Range(RefSpeakerEntries) :
              IsTopScorer(o) => best_match.seconds <= o.seconds

\* C3 as stated: without keywords the matcher returns the speaker's utterance
\* with the minimum seconds.
C3_FallbackChronologicallyFirst ==
    (/\ pc = "matched_refine"
     /\ RefKeywords = {}
     /\ RefSpeakerEntries # <<>>)
    => /\ best_match \in Range(RefSpeakerEntries)
       /\ \A o \in Range(RefSpeakerEntries) : best_match.seconds <= o.seconds

\* C4: no utterance of the reference's speaker gives None; otherwise the
\* returned utterance has the reference's speaker.  Both matchers.
C4_SpeakerFilter ==
    pc \in {"matched_refine", "matched_utils"} =>
        IF RefSpeakerEntries = <<>>
            THEN best_match = None
            ELSE best_match # None /\ best_match.name = topic_ref.speaker

\* a match returned from a transcript that also holds another speaker
C4_Witness ==
    /\ pc \in {"matched_refine", "matched_utils"}
    /\ best_match # None
    /\ best_match.name = topic_ref.speaker
    /\ \E e \in Range(transcript_entries) : e.name # topic_ref.speaker
    /\ transcript_entries[1].name # topic_ref.speaker

-----------------------------------------------------------------------------
(* Topic segmenter: speaker_summary_utils.enhance_speaker_tracking         *)

\* "if time_gap > 300" and "... > 300" (seconds), "... < 0.3" (in 1/1000)
GapThreshold == 300
SimilarityCutoff == 300

\* First pass (lines 62-102) over sorted_data[i..].  st.current_topics maps a
\* speaker seen so far to the 'start' of its current topic, st.topic_changes
\* is the list of potential changes, st.speaker_occurrences maps a speaker to
\* its occurrences.
RECURSIVE FirstPass(_, _, _)
FirstPass(sorted_data, i, st) ==
    IF i > Len(sorted_data) THEN st
    ELSE LET entry == sorted_data[i]
             speaker == entry.name
             seen == speaker \in DOMAIN st.speaker_occurrences
             start == IF seen THEN st.current_topics[speaker] ELSE entry.seconds
             time_gap == entry.seconds - start
             changed == time_gap > GapThreshold
             occurrence == [seconds |-> entry.seconds,
                            time_str |-> entry.time_str,
                            text |-> entry.text,
                            row_index |-> i - 1]
             before == IF seen THEN st.speaker_occurrences[speaker] ELSE <<>>
         IN  FirstPass(sorted_data, i + 1,
                 [current_topics |->
                      [sp \in DOMAIN st.current_topics \cup {speaker} |->
                          IF sp = speaker
                              THEN (IF changed THEN entry.seconds ELSE start)
                              ELSE st.current_topics[sp]],
                  topic_changes |->
                      IF changed
                          THEN Append(st.topic_changes,
                                      [speaker |-> speaker,
                                       prev_end |-> start,
                                       new_start |-> entry.seconds])
                          ELSE st.topic_changes,
                  speaker_occurrences |->
                      [sp \in DOMAIN st.speaker_occurrences \cup {speaker} |->
                          IF sp = speaker THEN Append(before, occurrence)
                          ELSE st.speaker_occurrences[sp]]])

\* ' '.join(texts)
JoinTexts(texts) == Flatten(texts)

\* Mutant of is_topic_change: a change needs dissimilar text and a long gap.
is_topic_change_both(topic_changes, speaker, current_topic, curr_occurrence) ==
    \E k \in DOMAIN topic_changes :
        /\ topic_changes[k].speaker = speaker
        /\ topic_changes[k].new_start = curr_occurrence.seconds
        /\ compute_text_similarity(JoinTexts(current_topic.texts),
                                   curr_occurrence.text) < SimilarityCutoff
        /\ curr_occurrence.seconds
             - current_topic.occurrences[Len(current_topic.occurrences)].seconds
             > GapThreshold

\* Mutant of is_topic_change: the potential change is looked up by the time
\* the previous topic started instead of the time the new one starts.
is_topic_change_prev_end(topic_changes, speaker, current_topic, curr_occurrence) ==
    \E k \in DOMAIN topic_changes :
        /\ topic_changes[k].speaker = speaker
        /\ topic_changes[k].prev_end = curr_occurrence.seconds
        /\ \/ compute_text_similarity(JoinTexts(current_topic.texts),
                                      curr_occurrence.text) < SimilarityCutoff
           \/ curr_occurrence.seconds
                - current_topic.occurrences[Len(current_topic.occurrences)].seconds
                > GapThreshold

\* lines 121-134: is curr_occurrence a confirmed topic change of the speaker
is_topic_change(topic_changes, speaker, current_topic, curr_occurrence) ==
    \E k \in DOMAIN topic_changes :
        /\ topic_changes[k].speaker = speaker
        /\ topic_changes[k].new_start = curr_occurrence.seconds
        /\ \/ compute_text_similarity(JoinTexts(current_topic.texts),
                                      curr_occurrence.text) < SimilarityCutoff
           \/ curr_occurrence.seconds
                - current_topic.occurrences[Len(current_topic.occurrences)].seconds
                > GapThreshold

\* Mutant of NewTopic: the topic keeps no start time of its own.
NewTopic_ZeroStart(occurrence) ==
    [start_seconds |-> 0,
     start_time |-> seconds_to_time_str(0),
     texts |-> <<occurrence.text>>,
     occurrences |-> <<occurrence>>]

NewTopic(occurrence) ==
    [start_seconds |-> occurrence.seconds,
     start_time |-> occurrence.time_str,
     texts |-> <<occurrence.text>>,
     occurrences |-> <<occurrence>>]

\* Mutant of SecondPass: the topic that is open at the end of the speaker's
\* occurrences is not added.
RECURSIVE SecondPass_DropsLast(_, _, _, _, _, _)
SecondPass_DropsLast(topic_changes, speaker, occurrences, i, confirmed, current_topic) ==
    IF i > Len(occurrences) THEN confirmed
    ELSE IF is_topic_change(topic_changes, speaker, current_topic, occurrences[i])
        THEN SecondPass_DropsLast(topic_changes, speaker, occurrences, i + 1,
                        Append(confirmed, current_topic), NewTopic(occurrences[i]))
    ELSE SecondPass_DropsLast(topic_changes, speaker, occurrences, i + 1, confirmed,
                    [current_topic EXCEPT
                        !.texts = Append(@, occurrences[i].text),
                        !.occurrences = Append(@, occurrences[i])])

\* Second pass (lines 118-153) over occurrences[i..] of one speaker; returns
\* the speaker's list of topics, the last open topic included.
RECURSIVE SecondPass(_, _, _, _, _, _)
SecondPass(topic_changes, speaker, occurrences, i, confirmed, current_topic) ==
    IF i > Len(occurrences) THEN Append(confirmed, current_topic)
    ELSE IF is_topic_change(topic_changes, speaker, current_topic, occurrences[i])
        THEN SecondPass(topic_changes, speaker, occurrences, i + 1,
                        Append(confirmed, current_topic), NewTopic(occurrences[i]))
    ELSE SecondPass(topic_changes, speaker, occurrences, i + 1, confirmed,
                    [current_topic EXCEPT
                        !.texts = Append(@, occurrences[i].text),
                        !.occurrences = Append(@, occurrences[i])])

EmptyFunction == [x \in {} |-> x]

enhance_speaker_tracking(data) ==
    LET sorted_data == StableSort(data)
        st == FirstPass(sorted_data, 1,
                        [current_topics |-> EmptyFunction,
                         topic_changes |-> <<>>,
                         speaker_occurrences |-> EmptyFunction])
    IN  [speaker \in DOMAIN st.speaker_occurrences |->
            SecondPass(st.topic_changes, speaker, st.speaker_occurrences[speaker],
                       2, <<>>, NewTopic(st.speaker_occurrences[speaker][1]))]

-----------------------------------------------------------------------------
(* Segmenter runs                                                          *)

SegTexts ==
    { <<"intro", "remarks">>,
      <<"totally", "different", "subject", "about", "budgets">> }

SegSeconds == {0, 10, 310, 700}

MaxUtterances == 3

SegRows == [Name : Names, Seconds : SegSeconds, Text : SegTexts]

InitSegment ==
    /\ pc = "start"
    /\ rows \in SeqsUpTo(SegRows, MaxUtterances)
    /\ transcript_entries = <<>>
    /\ topic_ref = None
    /\ best_match = None
    /\ summary_topics = <<>>
    /\ batches = <<>>
    /\ transcript_data = <<>>
    /\ confirmed_topics = <<>>
    /\ speaker_topics = <<>>
    /\ IdleVer
    /\ IdleCodec
    /\ IdleWeb
    /\ IdleCal

\* the pipeline reads the sheet with utils.extract_transcript_data
LoadData ==
    /\ pc = "start"
    /\ transcript_data' = extract_transcript_data(rows, [i \in DOMAIN rows |-> ""])
    /\ confirmed_topics' = <<>>
    /\ pc' = "loaded"
    /\ UNCHANGED <<speaker_topics, matchVars, verVars, codecVars, webVars, calVars>>

\* speaker_summary_utils.py line 391
Segment ==
    /\ pc = "loaded"
    /\ confirmed_topics' = enhance_speaker_tracking(transcript_data)
    /\ pc' = "segmented"
    /\ UNCHANGED <<transcript_data, speaker_topics, matchVars, verVars,
                   codecVars, webVars, calVars>>

NextSegment == LoadData \/ Segment

SpecSegment == InitSegment /\ [][NextSegment]_vars

-----------------------------------------------------------------------------
(* Claims about the segmenter                                              *)

Segmented == pc = "segmented"

Speakers == {transcript_data[i].name : i \in DOMAIN transcript_data}

\* What the claims say about one speaker: at, the positions in the time-sorted
\* transcript of the speaker's utterances; utt, these utterances in ascending
\* time order; starts, the positions in utt of the first members of the
\* speaker's topics.
SpeakerView(sp) ==
    LET sorted_data == StableSort(transcript_data)
        at == SelectSeq([i \in DOMAIN sorted_data |-> i],
                        LAMBDA i : sorted_data[i].name = sp)
        topics == confirmed_topics[sp]
    IN  [at |-> at,
         utt |-> [k \in DOMAIN at |-> sorted_data[at[k]]],
         starts |-> [k \in DOMAIN topics |->
                        1 + SeqSum([i \in 1..(k - 1) |-> Len(topics[i].occurrences)])]]

\* all members of a speaker's topics, topic after topic
TopicMembers(sp) ==
    Flatten([k \in DOMAIN confirmed_topics[sp] |-> confirmed_topics[sp][k].occurrences])

\* the speaker's utterance j opens a topic
Boundary(v, j) == j \in Range(v.starts)

\* gap between the speaker's utterance j and the one before it, the last
\* member of the open topic when j is processed
Gap(v, j) == v.utt[j].seconds - v.utt[j - 1].seconds

\* text accumulated in the open topic when the speaker's utterance j arrives
AccumulatedText(v, j) ==
    LET from == CHOOSE a \in Range(v.starts) :
                    a < j /\ \A b \in Range(v.starts) : b < j => b <= a
    IN  JoinTexts([k \in 1..(j - from) |-> v.utt[from + k - 1].text])

Similarity(v, j) == compute_text_similarity(AccumulatedText(v, j), v.utt[j].text)

Later(v) == 2..Len(v.utt)

\* C5 as stated: an utterance at most 300 seconds after the last member of the
\* open topic never opens a topic, whatever the similarity.
C5_SmallGapContinues ==
    Segmented =>
        \A sp \in Speakers :
            LET v == SpeakerView(sp)
            IN  \A j \in Later(v) : Gap(v, j) <= 300 => ~Boundary(v, j)

\* C6 as stated: with a gap above 300 seconds the utterance opens a topic only
\* if its similarity to the accumulated text is below 0.3; at 0.3 or above it
\* continues the topic.
C6_LongGapNeedsDissimilarity ==
    Segmented =>
        \A sp \in Speakers :
            LET v == SpeakerView(sp)
            IN  \A j \in Later(v) :
                    Gap(v, j) > 300 => (Boundary(v, j) <=> Similarity(v, j) < 300)

\* C6 amended: with a gap above 300 seconds to the last member of the open
\* topic the utterance always opens a topic, whatever the similarity.
C6_LongGapAlwaysSplits ==
    Segmented =>
        \A sp \in Speakers :
            LET v == SpeakerView(sp)
            IN  \A j \in Later(v) : Gap(v, j) > 300 => Boundary(v, j)

\* a long gap before an utterance that is similar to the accumulated text
C6_Witness ==
    /\ Segmented
    /\ \E sp \in Speakers :
           LET v == SpeakerView(sp)
           IN  \E j \in Later(v) :
                   Gap(v, j) > 300 /\ Similarity(v, j) >= 300 /\ Boundary(v, j)

ScenarioA ==
    /\ Len(transcript_data) = 3
    /\ \A i \in 1..3 : transcript_data[i].name = "Alice"
    /\ [i \in 1..3 |-> transcript_data[i].seconds] = <<0, 10, 700>>
    /\ transcript_data[1].text = <<"intro", "remarks">>
    /\ transcript_data[3].text = <<"totally", "different", "subject", "about", "budgets">>

MemberSeconds(topic) == [i \in DOMAIN topic.occurrences |-> topic.occurrences[i].seconds]

\* C7: a gap above 300 seconds before a dissimilar utterance u closes the open
\* topic and opens one whose first member is u and whose start_seconds is
\* u.seconds; utterances at 0, 10 and 700 with unrelated text at 700 give the
\* two topics [0,10] and [700].
C7_ConfirmedBoundary ==
    Segmented =>
        /\ \A sp \in Speakers :
               LET v == SpeakerView(sp)
               IN  \A j \in Later(v) :
                       (Gap(v, j) > 300 /\ Similarity(v, j) < 300) =>
                           \E k \in DOMAIN confirmed_topics[sp] :
                               /\ k > 1
                               /\ v.starts[k] = j
                               /\ confirmed_topics[sp][k].occurrences[1].seconds
                                      = v.utt[j].seconds
                               /\ confirmed_topics[sp][k].occurrences[1].row_index
                                      = v.at[j] - 1
                               /\ confirmed_topics[sp][k].start_seconds
                                      = v.utt[j].seconds
        /\ ScenarioA =>
               [k \in DOMAIN confirmed_topics["Alice"] |->
                   MemberSeconds(confirmed_topics["Alice"][k])] = << <<0, 10>>, <<700>> >>

C7_Witness ==
    /\ Segmented
    /\ ScenarioA
    /\ Len(confirmed_topics["Alice"]) = 2
    /\ confirmed_topics["Alice"][2].start_seconds = 700

\* C8: in every returned topic the members belong to one speaker, are in
\* non-decreasing order of seconds, and consecutive members satisfy
\* gap <= 300 or similarity(accumulated text, next text) >= 0.3.
C8_TopicInvariant ==
    Segmented =>
        LET sorted_data == StableSort(transcript_data)
        IN  \A sp \in DOMAIN confirmed_topics : \A k \in DOMAIN confirmed_topics[sp] :
            LET topic == confirmed_topics[sp][k]
            IN  /\ \A i \in DOMAIN topic.occurrences :
                       sorted_data[topic.occurrences[i].row_index + 1].name = sp
                /\ \A i \in 2..Len(topic.occurrences) :
                       /\ topic.occurrences[i - 1].seconds <= topic.occurrences[i].seconds
                       /\ \/ topic.occurrences[i].seconds
                               - topic.occurrences[i - 1].seconds <= 300
                          \/ compute_text_similarity(
                                 JoinTexts(SubSeq(topic.texts, 1, i - 1)),
                                 topic.occurrences[i].text) >= 300

\* two speakers, and a topic of two members with dissimilar texts
C8_Witness ==
    /\ Segmented
    /\ Cardinality(Speakers) = 2
    /\ \E sp \in Speakers : \E k \in DOMAIN confirmed_topics[sp] :
           LET topic == confirmed_topics[sp][k]
           IN  /\ Len(topic.occurrences) = 2
               /\ topic.occurrences[2].seconds > topic.occurrences[1].seconds
               /\ compute_text_similarity(topic.texts[1], topic.texts[2]) < 300

\* C9: every utterance of a speaker is a member of exactly one of the
\* speaker's topics, in order, and a speaker with a single utterance has
\* exactly one topic.
C9_Completeness ==
    Segmented =>
        /\ DOMAIN confirmed_topics = Speakers
        /\ \A sp \in Speakers :
               /\ LET members == TopicMembers(sp)
                  IN  [i \in DOMAIN members |-> members[i].row_index + 1]
                          = SpeakerView(sp).at
               /\ \A k \in DOMAIN confirmed_topics[sp] :
                      /\ confirmed_topics[sp][k].occurrences # <<>>
                      /\ confirmed_topics[sp][k].texts =
                             [i \in DOMAIN confirmed_topics[sp][k].occurrences |->
                                 confirmed_topics[sp][k].occurrences[i].text]
               /\ Cardinality({i \in DOMAIN transcript_data :
                                   transcript_data[i].name = sp}) = 1
                      => Len(confirmed_topics[sp]) = 1

\* one speaker with a single utterance, another with two utterances that
\* carry the same seconds value
C9_Witness ==
    /\ Segmented
    /\ \E sp \in Speakers :
           Len(SpeakerView(sp).utt) = 1 /\ Len(confirmed_topics[sp]) = 1
    /\ \E sp \in Speakers :
           LET v == SpeakerView(sp)
           IN  /\ Len(v.utt) = 2
               /\ v.utt[1].seconds = v.utt[2].seconds
               /\ Len(TopicMembers(sp)) = 2

-----------------------------------------------------------------------------
(* Timestamp consistency verifier                                          *)
(*                                                                         *)
(* A document is the sequence of its links "[(H:MM:SS)](url&start=N)", the *)
(* only text the verifier's pattern matches and its replacement changes.   *)
(* A link is [disp, url, start]: the display triple, the part of the URL   *)
(* before "&start=", and the digits of N as written.                       *)

\* (int(time_parts[0]) * 3600) + (int(time_parts[1]) * 60) + int(time_parts[2])
displayed_seconds_of(disp) == DigitsValue(disp[1]) * 3600 + disp[2] * 60 + disp[3]

\* refineStartTimes.py lines 292-294 and utils.format_corrected_timestamp
format_corrected_timestamp(seconds) ==
    <<Digits(seconds \div 3600), (seconds % 3600) \div 60, seconds % 60>>

\* Mutant of NeedsCorrection: only a display that is too late is corrected.
NeedsCorrection_TooLate(displayed_seconds, url_seconds) == displayed_seconds > url_seconds

\* "if displayed_seconds != url_seconds"
NeedsCorrection(displayed_seconds, url_seconds) == displayed_seconds # url_seconds

\* content.replace(original, corrected): every link whose text equals the
\* matched text gets the corrected display
replace_link(doc, original, corrected) ==
    [i \in DOMAIN doc |-> IF doc[i] = original THEN corrected ELSE doc[i]]

\* Mutant of FixLoop: the loop ends after its first correction.
RECURSIVE FixLoop_StopsAfterCorrection(_, _, _)
FixLoop_StopsAfterCorrection(matches, i, doc) ==
    IF i > Len(matches) THEN doc
    ELSE LET match == matches[i]
             url_seconds == DigitsValue(match.start)
         IN  IF NeedsCorrection(displayed_seconds_of(match.disp), url_seconds)
                 THEN replace_link(doc, match,
                          [match EXCEPT
                              !.disp = format_corrected_timestamp(url_seconds)])
             ELSE FixLoop_StopsAfterCorrection(matches, i + 1, doc)

\* The loop of lines 280-304 over matches[i..]; the matches were found in the
\* document as read, the replacements act on the document as rewritten so far.
RECURSIVE FixLoop(_, _, _)
FixLoop(matches, i, doc) ==
    IF i > Len(matches) THEN doc
    ELSE LET match == matches[i]
             url_seconds == DigitsValue(match.start)
         IN  IF NeedsCorrection(displayed_seconds_of(match.disp), url_seconds)
                 THEN FixLoop(matches, i + 1,
                          replace_link(doc, match,
                              [match EXCEPT
                                  !.disp = format_corrected_timestamp(url_seconds)]))
             ELSE FixLoop(matches, i + 1, doc)

\* refineStartTimes.verify_and_fix_timestamps
verify_and_fix_timestamps(doc) == FixLoop(doc, 1, doc)

\* utils.verify_timestamp_format on a display string of three numeric parts
verify_timestamp_format(timestamp_str, seconds) ==
    IF displayed_seconds_of(timestamp_str) # seconds
        THEN format_corrected_timestamp(seconds)
        ELSE timestamp_str

-----------------------------------------------------------------------------
(* Verifier runs                                                           *)

LinkDisplays ==
    { <<(<<0>>), 0, 7>>,        \* "0:00:07"
      <<(<<0, 0>>), 0, 7>>,     \* "00:00:07"
      <<(<<0>>), 1, 10>>,       \* "0:01:10"
      <<(<<0>>), 10, 0>> }      \* "0:10:00"

LinkStarts == { <<7>>, <<7, 0>>, <<7, 0, 0>> }

LinkUrls == {"https://a?id=1", "https://a?id=2"}

MaxLinks == 2

Links == [disp : LinkDisplays, url : LinkUrls, start : LinkStarts]

InitVerify ==
    /\ pc = "start"
    /\ original_text \in SeqsUpTo(Links, MaxLinks)
    /\ content = original_text
    /\ IdleMatch
    /\ IdleSeg
    /\ IdleCodec
    /\ IdleWeb
    /\ IdleCal

\* one pass of refineStartTimes.verify_and_fix_timestamps over the document
VerifyAndFix ==
    /\ pc = "start"
    /\ content' = verify_and_fix_timestamps(original_text)
    /\ pc' = "verified"
    /\ UNCHANGED <<original_text, matchVars, segVars, codecVars,
                   webVars, calVars>>

\* utils.verify_timestamp_format applied to every pair of the document
VerifyFormat ==
    /\ pc = "start"
    /\ content' = [i \in DOMAIN original_text |->
                      [original_text[i] EXCEPT
                          !.disp = verify_timestamp_format(
                                       @, DigitsValue(original_text[i].start))]]
    /\ pc' = "formatted"
    /\ UNCHANGED <<original_text, matchVars, segVars, codecVars,
                   webVars, calVars>>

\* a second pass of verify_and_fix_timestamps, over the corrected document
VerifyAgain ==
    /\ pc = "verified"
    /\ content' = verify_and_fix_timestamps(content)
    /\ pc' = "verified_again"
    /\ UNCHANGED <<original_text, matchVars, segVars, codecVars,
                   webVars, calVars>>

NextVerify == VerifyAndFix \/ VerifyFormat \/ VerifyAgain

SpecVerify == InitVerify /\ [][NextVerify]_vars

-----------------------------------------------------------------------------
(* Claims about the verifier                                               *)

Consistent(link) == displayed_seconds_of(link.disp) = DigitsValue(link.start)

C11_SecondPassNoCorrection ==
    [][(pc = "verified" /\ pc' = "verified_again") => content' = content]_vars

\* "0:10:00" next to start=700 became "0:11:40" in the first pass and a
\* second pass has run over the two-link document
C11_Witness ==
    /\ pc = "verified_again"
    /\ Len(content) = 2
    /\ original_text[1].disp = <<(<<0>>), 10, 0>>
    /\ original_text[1].start = <<7, 0, 0>>
    /\ ~Consistent(original_text[2])
    /\ content[1].disp = <<(<<0>>), 11, 40>>

-----------------------------------------------------------------------------
(* Chronological reassembler                                               *)
(*                                                                         *)
(* A markdown text is a sequence of tokens.  A token is a piece of plain   *)
(* text [w |-> ...], among them the markers the heading pattern looks for, *)
(* or a link "[(H:MM:SS)](url&start=N<extra>)" given as the record         *)
(* [disp, url, start, extra].  The text of a token and of a URL contains   *)
(* none of the characters the pattern treats specially unless the token is *)
(* that character's marker.                                                *)

W(s) == [w |-> s]
NL == W("\n")
SP == W(" ")
Bold == W("**")
Hashes == W("###")
Hyphen == W("-")
Bracket == W("[")

is_link(t) == "start" \in DOMAIN t
\* "(?:\*\*|\#\#\#)"
is_start(t) == t \in {Bold, Hashes}
\* "\s"
is_space(t) == t \in {NL, SP}
\* a character "[^-]" does not match
has_hyphen(t) == t = Hyphen
\* "[^*#\(\)]"
speaker_char(t) == ~is_link(t) /\ ~is_start(t)

SetMin(S) == CHOOSE x \in S : \A y \in S : x <= y

\* str.strip() on a run of tokens
RECURSIVE strip(_)
strip(ts) ==
    IF ts = <<>> THEN <<>>
    ELSE IF is_space(Head(ts)) THEN strip(Tail(ts))
    ELSE IF is_space(ts[Len(ts)]) THEN strip(SubSeq(ts, 1, Len(ts) - 1))
    ELSE ts

\* "([^-]+)\s*-": the topic group runs up to the first hyphen after the
\* opening marker, across line ends and further markers
hyphen_after(text, i) ==
    LET H == {x \in (i + 1)..Len(text) : has_hyphen(text[x])}
    IN  IF H = {} THEN 0 ELSE SetMin(H)

\* The heading pattern of line 529 tried at position i, an opening marker.
\* The result is None or the groups of the match with its first and last
\* position.
match_at(text, i) ==
    LET j == hyphen_after(text, i)
        K == IF j = 0 THEN {}
             ELSE {x \in (j + 1)..Len(text) : ~speaker_char(text[x])}
        k == IF K = {} THEN 0 ELSE SetMin(K)
        \* "(?:\*\*)?\s*" and then the link
        R == IF k = 0 THEN {}
             ELSE {x \in (k + 1)..Len(text) : ~is_space(text[x])}
        l == IF R = {} THEN 0 ELSE SetMin(R)
    IN  IF j = 0 \/ j = i + 1 \/ k = 0 THEN None
        ELSE IF text[k] = Bold /\ k > j + 1 /\ l # 0 /\ is_link(text[l])
            THEN [first |-> i, last |-> l,
                  topic |-> strip(SubSeq(text, i + 1, j - 1)),
                  speaker |-> strip(SubSeq(text, j + 1, k - 1)),
                  link |-> text[l]]
        \* no closing marker: the speaker group takes the link's "[" too
        ELSE IF is_link(text[k])
            THEN [first |-> i, last |-> k,
                  topic |-> strip(SubSeq(text, i + 1, j - 1)),
                  speaker |-> strip(Append(SubSeq(text, j + 1, k - 1), Bracket)),
                  link |-> text[k]]
        ELSE None

\* list(re.finditer(pattern, original_text)) from position i on: leftmost
\* matches, none overlapping
RECURSIVE finditer(_, _)
finditer(text, i) ==
    IF i > Len(text) THEN <<>>
    ELSE LET m == IF is_start(text[i]) THEN match_at(text, i) ELSE None
         IN  IF m = None THEN finditer(text, i + 1)
             ELSE <<m>> \o finditer(text, m.last + 1)

\* lines 540-579: one topic per match, its content the text up to the next
\* match or the end of the file
topics_of(text, topic_matches) ==
    [n \in DOMAIN topic_matches |->
        LET match == topic_matches[n]
            end_pos == IF n < Len(topic_matches)
                           THEN topic_matches[n + 1].first - 1
                           ELSE Len(text)
        IN  [topic |-> match.topic,
             speaker |-> match.speaker,
             corrected_timestamp |->
                 format_corrected_timestamp(DigitsValue(match.link.start)),
             url |-> match.link.url,
             start |-> match.link.start,
             seconds |-> DigitsValue(match.link.start),
             content |-> strip(SubSeq(text, match.last + 1, end_pos))]]

DefaultHeader == <<W("# Meeting Summaries")>>

\* lines 599-602 of one topic, each of the two lines after the "\n" that
\* '\n'.join puts before it
render_topic(topic_info) ==
    <<NL, NL, Bold>> \o topic_info.topic \o <<SP, Hyphen, SP>>
        \o topic_info.speaker
        \o <<Bold, SP,
             [disp |-> topic_info.corrected_timestamp, url |-> topic_info.url,
              start |-> topic_info.start, extra |-> ""]>>
        \o <<NL>> \o topic_info.content

\* refineStartTimes.rearrange_summary_by_timestamp on the text of the file;
\* <<>> stands for "no topics found", when no file is written
rearrange_summary_by_timestamp(text) ==
    LET topic_matches == finditer(text, 1)
    IN  IF topic_matches = <<>> THEN <<>>
        ELSE LET topics == StableSort(topics_of(text, topic_matches))
                 header == strip(SubSeq(text, 1, topic_matches[1].first - 1))
             IN  (IF header # <<>> THEN header ELSE DefaultHeader)
                     \o Flatten([n \in DOMAIN topics |-> render_topic(topics[n])])

-----------------------------------------------------------------------------
(* Reassembler runs                                                        *)

SummaryLinks ==
    { [disp |-> <<(<<0>>), 11, 40>>, url |-> "https://a?id=1",
       start |-> <<7, 0, 0>>, extra |-> ""],
      [disp |-> <<(<<0>>), 2, 0>>, url |-> "https://a?id=1",
       start |-> <<1, 2, 0>>, extra |-> ""],
      [disp |-> <<(<<0>>), 10, 0>>, url |-> "https://a?id=2",
       start |-> <<7, 0, 0>>, extra |-> "&t=1"] }

\* "**Topic - Speaker** [(H:MM:SS)](url&start=N)"
BoldHeading(topic, speaker, link) ==
    <<Bold, W(topic), SP, Hyphen, SP, W(speaker), Bold, SP, link>>

\* "### Topic - Speaker [(H:MM:SS)](url&start=N)"
HashHeading(topic, speaker, link) ==
    <<Hashes, SP, W(topic), SP, Hyphen, SP, W(speaker), SP, link>>

SummaryHeadings ==
    {BoldHeading("Budget", "Alice", l) : l \in SummaryLinks}
        \cup {HashHeading("Index", "Bob", l) : l \in SummaryLinks}

SummaryBodies ==
    { <<NL>>,
      <<NL, W("notes"), NL, NL>>,
      <<NL, W("said"), SP, Bold, W("key"), Bold, SP, W("things"), NL, NL>> }

SummaryPreambles ==
    { <<>>,
      <<NL, NL>>,
      <<W("# Title"), NL, NL>>,
      <<Bold, W("Attendees"), Bold, SP, W("all"), NL, NL>> }

MaxSections == 2

SummarySections == {h \o b : h \in SummaryHeadings, b \in SummaryBodies}

InitRearrange ==
    /\ pc = "start"
    /\ \E preamble \in SummaryPreambles :
       \E sections \in SeqsUpTo(SummarySections, MaxSections) :
           original_text = preamble \o Flatten(sections)
    /\ content = <<>>
    /\ IdleMatch
    /\ IdleSeg
    /\ IdleCodec
    /\ IdleWeb
    /\ IdleCal

\* rearrange_summary_by_timestamp(summary_md_file): the output file is
\* written unless no topic was found
Rearrange ==
    /\ pc = "start"
    /\ content' = rearrange_summary_by_timestamp(original_text)
    /\ pc' = IF finditer(original_text, 1) = <<>> THEN "no_topics" ELSE "rearranged"
    /\ UNCHANGED <<original_text, matchVars, segVars, codecVars,
                   webVars, calVars>>

\* rearrange_summary_by_timestamp run on the file a first run wrote
RearrangeAgain ==
    /\ pc = "rearranged"
    /\ content' = rearrange_summary_by_timestamp(content)
    /\ pc' = "rearranged_again"
    /\ UNCHANGED <<original_text, matchVars, segVars, codecVars,
                   webVars, calVars>>

NextRearrange == Rearrange \/ RearrangeAgain

SpecRearrange == InitRearrange /\ [][NextRearrange]_vars

-----------------------------------------------------------------------------
(* Claims about the reassembler                                            *)
(*                                                                         *)
(* The sections of a document as it reads: a section is the line that ends *)
(* in a start=<seconds> link with the text up to the next such line.       *)

LinkPositions(text) == {x \in DOMAIN text : is_link(text[x])}

NthLink(text, n) ==
    CHOOSE x \in LinkPositions(text) :
        Cardinality({y \in LinkPositions(text) : y <= x}) = n

LineStart(text, e) ==
    LET B == {x \in 1..e : text[x] = NL}
    IN  IF B = {} THEN 1 ELSE 1 + CHOOSE x \in B : \A y \in B : y <= x

\* the words of a heading line: neither markers nor blanks nor the link
HeadingWords(line) ==
    SelectSeq(line, LAMBDA t : ~is_link(t) /\ ~is_start(t) /\ ~is_space(t))

ReadSections(text) ==
    LET N == Cardinality(LinkPositions(text))
    IN  [n \in 1..N |->
            LET e == NthLink(text, n)
                stop == IF n < N THEN LineStart(text, NthLink(text, n + 1)) - 1
                                 ELSE Len(text)
            IN  [heading |-> HeadingWords(SubSeq(text, LineStart(text, e), e)),
                 url |-> text[e].url,
                 seconds |-> DigitsValue(text[e].start),
                 body |-> strip(SubSeq(text, e + 1, stop))]]

ReadPreamble(text) ==
    IF LinkPositions(text) = {} THEN text
    ELSE SubSeq(text, 1, LineStart(text, NthLink(text, 1)) - 1)

\* C12: the sections of the output are the sections of the input, each with
\* its heading words, link and body, in ascending order of their
\* start=<seconds> value, sections of equal seconds in their input order.
C12_SectionsSortedStable ==
    pc = "rearranged" =>
        ReadSections(content) = StableSort(ReadSections(original_text))

\* C13: the text before the first section of the input, an empty one
\* included, is the text before the first section of the output (blank
\* space at its ends apart).
C13_PreambleUnchanged ==
    pc = "rearranged" =>
        strip(ReadPreamble(content)) = strip(ReadPreamble(original_text))

-----------------------------------------------------------------------------
(* Timestamp codec on strings                                              *)
(*                                                                         *)
(* A time string is the sequence of its fields, the pieces between its     *)
(* colons, each field the sequence of its characters.  A call either       *)
(* returns a value or raises.                                              *)

DigitChars == <<"0", "1", "2", "3", "4", "5", "6", "7", "8", "9">>
DigitChar(d) == DigitChars[d + 1]
IsDigit(c) == \E d \in 0..9 : DigitChars[d + 1] = c
DigitOf(c) == CHOOSE d \in 0..9 : DigitChars[d + 1] = c

\* str(n) for n >= 0
RECURSIVE NatStr(_)
NatStr(n) ==
    IF n < 10 THEN <<DigitChar(n)>> ELSE Append(NatStr(n \div 10), DigitChar(n % 10))

\* f"{n}"
IntStr(n) == IF n < 0 THEN <<"-">> \o NatStr(-n) ELSE NatStr(n)

\* f"{n:02d}"
Pad2(n) == IF 0 <= n /\ n < 10 THEN <<"0">> \o NatStr(n) ELSE IntStr(n)

\* The characters of a display <<hour digits, minutes, seconds>>.  The hour
\* digits of a negative hour are the one-element list of that hour.
TimeStrText(disp) ==
    << IF Len(disp[1]) = 1 /\ disp[1][1] < 0
           THEN IntStr(disp[1][1])
           ELSE [i \in DOMAIN disp[1] |-> DigitChar(disp[1][i])],
       Pad2(disp[2]),
       Pad2(disp[3]) >>

\* int(field) succeeds on a field without blanks when it is an optional sign
\* and at least one digit
IntBody(field) ==
    IF field # <<>> /\ field[1] \in {"-", "+"} THEN Tail(field) ELSE field

IsIntLiteral(field) ==
    IntBody(field) # <<>> /\ \A i \in DOMAIN IntBody(field) : IsDigit(IntBody(field)[i])

int(field) ==
    (IF field[1] = "-" THEN -1 ELSE 1)
        * DigitsValue([i \in DOMAIN IntBody(field) |-> DigitOf(IntBody(field)[i])])

\* Mutant of time_str_to_seconds: the hours count sixty seconds each.
time_str_to_seconds_hours_as_minutes(time_str) ==
    LET parts == time_str
    IN  IF Len(parts) = 3
            THEN IF \A i \in 1..3 : IsIntLiteral(parts[i])
                     THEN Return(int(parts[1]) * 60 + int(parts[2]) * 60 + int(parts[3]))
                     ELSE Raise("ValueError")
        ELSE Return(0)

\* utils.time_str_to_seconds: map(int, parts) raises ValueError on a field
\* that is no integer
time_str_to_seconds(time_str) ==
    LET parts == time_str
    IN  IF Len(parts) = 3
            THEN IF \A i \in 1..3 : IsIntLiteral(parts[i])
                     THEN Return(int(parts[1]) * 3600 + int(parts[2]) * 60 + int(parts[3]))
                     ELSE Raise("ValueError")
        ELSE Return(0)

\* txt2xlsx.time_to_seconds: the unpacking "h, m, s = ..." raises ValueError
\* as well when there are not three fields
time_to_seconds(time_str) ==
    IF Len(time_str) = 3 /\ \A i \in 1..3 : IsIntLiteral(time_str[i])
        THEN Return(int(time_str[1]) * 3600 + int(time_str[2]) * 60 + int(time_str[3]))
        ELSE Raise("ValueError")

\* Mutant of encode_call: the hour is written with two digits.
encode_call_padded_hour(seconds) ==
    LET disp == seconds_to_time_str(seconds)
    IN  Return(<<Pad2(seconds \div 3600), Pad2(disp[2]), Pad2(disp[3])>>)

\* a call of utils.seconds_to_time_str and the string it returns
encode_call(seconds) == Return(TimeStrText(seconds_to_time_str(seconds)))

\* a call of utils.format_corrected_timestamp: int(seconds) raises on NaN
format_call(seconds) ==
    IF ~notna(seconds) THEN Raise("ValueError")
    ELSE Return(TimeStrText(format_corrected_timestamp(seconds)))

-----------------------------------------------------------------------------
(* Codec runs                                                              *)

MaxSeconds == 359999
MaxNegative == 3700
MaxFields == 4

CodecSeconds == ((-MaxNegative)..MaxSeconds) \cup {NaN}

CodecFields ==
    { <<"0">>, <<"1">>, <<"0", "0">>, <<"0", "5">>, <<"0", "9">>, <<"1", "2">>,
      <<"6", "0">>, <<"x">>, <<>>, <<"-", "1">> }

TimeStrs == UNION {[1..k -> CodecFields] : k \in 1..MaxFields}

InitCodec ==
    /\ \/ pc = "start_seconds" /\ seconds_in \in CodecSeconds /\ time_str_in = <<>>
       \/ pc = "start_str" /\ seconds_in = 0 /\ time_str_in \in TimeStrs
    /\ encoded = None
    /\ decoded = None
    /\ IdleMatch
    /\ IdleSeg
    /\ IdleVer
    /\ IdleWeb
    /\ IdleCal

\* seconds_to_time_str(seconds)
EncodeSeconds ==
    /\ pc = "start_seconds"
    /\ encoded' = encode_call(seconds_in)
    /\ pc' = "encoded"
    /\ UNCHANGED <<seconds_in, time_str_in, decoded, matchVars,
                   segVars, verVars, webVars, calVars>>

\* time_str_to_seconds(seconds_to_time_str(seconds))
DecodeEncoded ==
    /\ pc = "encoded"
    /\ decoded' = time_str_to_seconds(encoded.returns)
    /\ pc' = "round_trip"
    /\ UNCHANGED <<seconds_in, time_str_in, encoded, matchVars,
                   segVars, verVars, webVars, calVars>>

\* format_corrected_timestamp(seconds)
FormatCorrected ==
    /\ pc = "start_seconds"
    /\ encoded' = format_call(seconds_in)
    /\ pc' = "formatted_seconds"
    /\ UNCHANGED <<seconds_in, time_str_in, decoded, matchVars,
                   segVars, verVars, webVars, calVars>>

\* time_str_to_seconds(time_str)
DecodeStr ==
    /\ pc = "start_str"
    /\ decoded' = time_str_to_seconds(time_str_in)
    /\ pc' = "decoded"
    /\ UNCHANGED <<seconds_in, time_str_in, encoded, matchVars,
                   segVars, verVars, webVars, calVars>>

\* txt2xlsx.time_to_seconds(time_str)
TimeToSeconds ==
    /\ pc = "start_str"
    /\ decoded' = time_to_seconds(time_str_in)
    /\ pc' = "decoded_txt2xlsx"
    /\ UNCHANGED <<seconds_in, time_str_in, encoded, matchVars,
                   segVars, verVars, webVars, calVars>>

\* seconds_to_time_str(time_str_to_seconds(time_str)), when the inner call
\* returned
EncodeDecoded ==
    /\ pc = "decoded"
    /\ "returns" \in DOMAIN decoded
    /\ encoded' = encode_call(decoded.returns)
    /\ pc' = "re_encoded"
    /\ UNCHANGED <<seconds_in, time_str_in, decoded, matchVars,
                   segVars, verVars, webVars, calVars>>

NextCodec ==
    \/ EncodeSeconds
    \/ DecodeEncoded
    \/ FormatCorrected
    \/ DecodeStr
    \/ TimeToSeconds
    \/ EncodeDecoded

SpecCodec == InitCodec /\ [][NextCodec]_vars

-----------------------------------------------------------------------------
(* Claims about the codec                                                  *)

\* C15: for every integer s in [0, 359999] decoding the encoding of s gives
\* s again; 3909 is encoded as "1:05:09", which decodes to 3909.
C15_RoundTripSeconds ==
    (pc = "round_trip" /\ seconds_in \in 0..MaxSeconds) =>
        /\ decoded = Return(seconds_in)
        /\ seconds_in = 3909 =>
               encoded = Return(<< <<"1">>, <<"0", "5">>, <<"0", "9">> >>)

C15_Witness ==
    /\ pc = "round_trip"
    /\ seconds_in = 3909
    /\ encoded = Return(<< <<"1">>, <<"0", "5">>, <<"0", "9">> >>)
    /\ decoded = Return(3909)

\* a display string "H:MM:SS" or "HH:MM:SS" with minutes and seconds below 60
AcceptedDisplay(d) ==
    /\ Len(d) = 3
    /\ Len(d[1]) \in {1, 2}
    /\ Len(d[2]) = 2
    /\ Len(d[3]) = 2
    /\ \A i \in 1..3 : \A k \in DOMAIN d[i] : IsDigit(d[i][k])
    /\ int(d[2]) < 60
    /\ int(d[3]) < 60

UnpaddedHour(d) == Len(d[1]) = 1 \/ d[1][1] # "0"

\* C16 as stated: encoding the decoding of any accepted display string,
\* "H:MM:SS" or "HH:MM:SS", gives the string again.
C16_RoundTripDisplay ==
    (pc = "re_encoded" /\ AcceptedDisplay(time_str_in)) =>
        encoded = Return(time_str_in)

\* C16 amended: encoding the decoding of an accepted display string gives
\* the string again when its hour has no leading zero, and the string
\* without the hour's leading zero otherwise.
C16_RoundTripUnpaddedHour ==
    (pc = "re_encoded" /\ AcceptedDisplay(time_str_in)) =>
        encoded = Return(IF UnpaddedHour(time_str_in)
                             THEN time_str_in
                             ELSE <<Tail(time_str_in[1]),
                                    time_str_in[2], time_str_in[3]>>)

C16_Witness ==
    /\ pc = "re_encoded"
    /\ time_str_in = << <<"1">>, <<"0", "5">>, <<"0", "9">> >>
    /\ decoded = Return(3909)
    /\ encoded = Return(time_str_in)

\* C17: for every negative seconds value and for NaN the encoding is
\* "00:00:00", from seconds_to_time_str and from format_corrected_timestamp.
C17_InvalidEncodesZero ==
    (/\ pc \in {"encoded", "formatted_seconds"}
     /\ (seconds_in < 0 \/ ~notna(seconds_in))) =>
        encoded = Return(<< <<"0", "0">>, <<"0", "0">>, <<"0", "0">> >>)

\* a string with a wrong number of fields or with a field that is no integer
Malformed(d) == Len(d) # 3 \/ \E i \in DOMAIN d : ~IsIntLiteral(d[i])

\* C18: for every malformed string the decoding returns 0 and does not
\* raise, from time_str_to_seconds and from txt2xlsx.time_to_seconds.
C18_MalformedDecodesZero ==
    (pc \in {"decoded", "decoded_txt2xlsx"} /\ Malformed(time_str_in)) =>
        decoded = Return(0)

-----------------------------------------------------------------------------
(* Transcript loader runs on sheets with a Time column                     *)

\* vtt2txt.parse_timestamp on "HH:MM:SS": the seconds and the time written
\* to the transcript, f"{hours:02d}:{minutes:02d}:{seconds:02d}"
parse_timestamp(hours, minutes, seconds) ==
    LET total_seconds == hours * 3600 + minutes * 60 + seconds
        formatted_hours == total_seconds \div 3600
    IN  [total_seconds |-> total_seconds,
         formatted |->
             << IF formatted_hours < 10 THEN <<0, formatted_hours>>
                                        ELSE Digits(formatted_hours),
                (total_seconds % 3600) \div 60,
                total_seconds % 60 >>]

\* The Time cell next to a Seconds cell: txt2xlsx copies the transcript's
\* time (lines 166-177), and a sheet may hold the unpadded form instead.
TimeCells(seconds) ==
    { parse_timestamp(seconds \div 3600, (seconds % 3600) \div 60,
                      seconds % 60).formatted,
      seconds_to_time_str(seconds) }

\* Rows of a sheet with a Time column; a missing cell is NaN, "" or <<>>.
TimedRows ==
    UNION { {[Name |-> n, Seconds |-> sec, Text |-> t, Time |-> c] :
                c \in TimeCells(IF notna(sec) THEN sec ELSE 0)} :
            n \in {"Alice", ""},
            sec \in MatchSeconds \cup {NaN},
            t \in {<<"the", "budget", "Budget">>, <<>>} }

\* Rows of a sheet that has no Text column
TextlessRows == [Name : {"Alice"}, Seconds : MatchSeconds]

InitLoad ==
    /\ pc = "start"
    /\ rows \in SeqsUpTo(TimedRows, MaxRows) \cup SeqsUpTo(TextlessRows, MaxRows)
    /\ transcript_entries = <<>>
    /\ topic_ref = None
    /\ best_match = None
    /\ summary_topics = <<>>
    /\ batches = <<>>
    /\ IdleSeg
    /\ IdleVer
    /\ IdleCodec
    /\ IdleWeb
    /\ IdleCal

NextLoad == LoadRefine \/ LoadUtils

SpecLoad == InitLoad /\ [][NextLoad]_vars

-----------------------------------------------------------------------------
(* Claims about the transcript loaders                                     *)

Loaded == pc \in {"loaded_refine", "loaded_utils"}

\* C19: every entry a transcript loader builds has a display time equal to
\* the encoding of its seconds, in utils.extract_transcript_data and in
\* refineStartTimes, where it comes from the sheet's Time column.
C19_DisplayIsEncodedSeconds ==
    Loaded =>
        \A i \in DOMAIN transcript_entries :
            transcript_entries[i].time_str =
                seconds_to_time_str(transcript_entries[i].seconds)

\* C20: the list a loader returns is in ascending order of seconds, entries
\* of equal seconds in the order of their rows.
C20_LoadedSortedStable ==
    Loaded =>
        \A i, j \in DOMAIN transcript_entries :
            i < j =>
                \/ transcript_entries[i].seconds < transcript_entries[j].seconds
                \/ /\ transcript_entries[i].seconds = transcript_entries[j].seconds
                   /\ transcript_entries[i].row_index < transcript_entries[j].row_index

\* the positions of the rows that have speaker, seconds and text
CompleteRows ==
    {i \in DOMAIN rows :
        rows[i].Name # "" /\ rows[i].Seconds # NaN /\ rows[i].Text # <<>>}

-----------------------------------------------------------------------------
(* Scorer runs: the combined score of lines 137-145 on a pair of texts,    *)
(* taken in both orders                                                    *)

ScoreWords == {"the", "budget", "Budget", "index"}

MaxTextLen == 2

ScoreTexts == SeqsUpTo(ScoreWords, MaxTextLen)

\* the score line 145 gives a processed entry against a processed topic
combined_score(topic_text, entry_text) ==
    MatchScore(preprocess_text(topic_text),
               extract_keywords(preprocess_text(topic_text)),
               preprocess_text(entry_text))

InitScore ==
    /\ pc = "start"
    /\ topic_ref \in [topic_text : ScoreTexts, entry_text : ScoreTexts]
    /\ best_match = None
    /\ summary_topics = <<>>
    /\ batches = <<>>
    /\ rows = <<>>
    /\ transcript_entries = <<>>
    /\ IdleSeg
    /\ IdleVer
    /\ IdleCodec
    /\ IdleWeb
    /\ IdleCal

\* lines 137-145 with the texts as topic and entry, and the other way round
ScoreBothWays ==
    /\ pc = "start"
    /\ best_match' =
           [score |-> combined_score(topic_ref.topic_text, topic_ref.entry_text),
            swapped |-> combined_score(topic_ref.entry_text, topic_ref.topic_text),
            similarity |->
                compute_text_similarity(preprocess_text(topic_ref.topic_text),
                                        preprocess_text(topic_ref.entry_text)),
            swapped_similarity |->
                compute_text_similarity(preprocess_text(topic_ref.entry_text),
                                        preprocess_text(topic_ref.topic_text))]
    /\ pc' = "scored"
    /\ UNCHANGED <<rows, summary_topics, batches, transcript_entries, topic_ref, segVars,
                   verVars, codecVars, webVars, calVars>>

NextScore == ScoreBothWays

SpecScore == InitScore /\ [][NextScore]_vars

-----------------------------------------------------------------------------
(* Claims about the scorer                                                 *)

KeywordsOf(text) == extract_keywords(preprocess_text(text))

\* C22 as stated: the combined score of two texts is the same in both
\* orders.
C22_ScoreSymmetric ==
    pc = "scored" => best_match.score = best_match.swapped

\* C22 amended: the cosine similarity is the same in both orders; the
\* combined score is the same in both orders exactly when the texts share no
\* keyword or have equally many keywords.
C22_SymmetricForEqualKeywordCounts ==
    pc = "scored" =>
        /\ best_match.similarity = best_match.swapped_similarity
        /\ best_match.score = best_match.swapped
               <=> \/ KeywordsOf(topic_ref.topic_text)
                          \cap KeywordsOf(topic_ref.entry_text) = {}
                   \/ Cardinality(KeywordsOf(topic_ref.topic_text))
                          = Cardinality(KeywordsOf(topic_ref.entry_text))

\* "budget" against "budget index" and back: one shared keyword, one and two
\* keywords
C22_Witness ==
    /\ pc = "scored"
    /\ topic_ref.topic_text = <<"budget">>
    /\ topic_ref.entry_text = <<"budget", "index">>
    /\ best_match.similarity = best_match.swapped_similarity
    /\ best_match.similarity > 0
    /\ best_match.score > best_match.swapped


-----------------------------------------------------------------------------
(* Web app (app.py): each job runs process_url in a thread of the one      *)
(* server process, next to the request handlers.  A path is the sequence   *)
(* of its components below the directory the server was started in; a     *)
(* file name is the pair of the job's file prefix and a suffix.            *)

UPLOAD_FOLDER == "temp_files"

\* job ids that uuid4 hands out
Jobs == {"job1", "job2"}

\* meeting names the submitted URLs resolve to
Urls == {"standup", "retro"}

\* os.path.join(app.config['UPLOAD_FOLDER'], job_id), a relative path
job_dir(job_id) == <<UPLOAD_FOLDER, job_id>>

\* a relative path is resolved against the current working directory
abspath(path) == cwd \o path

\* os.makedirs(path, exist_ok=True), called in directory cwd
makedirs(path) == dirs \cup {cwd \o SubSeq(path, 1, n) : n \in 1..Len(path)}

FileTypes ==
    {"srt", "txt", "xlsx", "refined_xlsx", "html", "summary_html",
     "speaker_summary_md", "meeting_summary_md"}

\* the file names process_url builds from file_prefix
file_name(file_prefix, file_type) ==
    <<file_prefix,
      CASE file_type = "srt" -> ".srt"
        [] file_type = "txt" -> ".txt"
        [] file_type = "xlsx" -> ".xlsx"
        [] file_type = "refined_xlsx" -> "_refined.xlsx"
        [] file_type = "html" -> "_speaker_summaries.html"
        [] file_type = "summary_html" -> "_meeting_summaries.html"
        [] file_type = "speaker_summary_md" -> "_speaker_summaries.md"
        [] file_type = "meeting_summary_md" -> "_meeting_summaries.md">>

\* ProcessingStatus.__init__ (the message log is left out)
ProcessingStatus ==
    [status |-> "initializing", progress |-> 0,
     output_files |-> [t \in FileTypes |-> None], error |-> None]

\* ProcessingStatus.update
update(job_id, status, progress) ==
    [processing_jobs EXCEPT ![job_id].status = status,
                            ![job_id].progress = progress]

\* ProcessingStatus.set_error
set_error(job_id, error_message) ==
    [processing_jobs EXCEPT ![job_id].status = "error",
                            ![job_id].error = error_message]

\* ProcessingStatus.to_dict
to_dict(job_status) ==
    [status |-> job_status.status,
     progress |-> job_status.progress,
     output_files |-> {t \in FileTypes : job_status.output_files[t] # None},
     error |-> job_status.error]

\* the files process_url registers, in the order of lines 164-172
output_order(options) ==
    <<"srt", "txt", "xlsx">>
    \o (IF options.skip_refinement THEN <<>> ELSE <<"refined_xlsx">>)
    \o <<"html", "summary_html", "speaker_summary_md", "meeting_summary_md">>

\* a file exists in the current working directory under a relative name
exists_here(name) ==
    \E f \in files : f.dir = cwd /\ f.name = name

\* a pipeline tool writes files by relative name
write_here(names, job_id) ==
    {f \in files : ~(f.dir = cwd /\ f.name \in names)}
    \cup {[dir |-> cwd, name |-> n, job |-> job_id] : n \in names}

\* app.before_request: cleanup_old_jobs recreates the upload folder (no job
\* directory is a day old)
cleanup_old_jobs == makedirs(<<UPLOAD_FOLDER>>)

InitWeb ==
    /\ pc = "serving"
    /\ cwd = <<>>
    /\ dirs = {<<>>, <<UPLOAD_FOLDER>>}
    /\ files = {}
    /\ processing_jobs = [j \in Jobs |-> None]
    /\ threads = [j \in Jobs |-> None]
    /\ response = None
    /\ IdleMatch
    /\ IdleSeg
    /\ IdleVer
    /\ IdleCodec
    /\ IdleCal

idleOfWeb == <<matchVars, segVars, verVars, codecVars, calVars>>

\* POST /process: register the job and start its thread
process(job_id) ==
    /\ processing_jobs[job_id] = None
    /\ \E url \in Urls, skip_refinement \in BOOLEAN :
           threads' = [threads EXCEPT ![job_id] =
                          [pc |-> "makedirs", file_prefix |-> url,
                           options |-> [skip_refinement |-> skip_refinement],
                           original_dir |-> None, added |-> 0]]
    /\ processing_jobs' = [processing_jobs EXCEPT ![job_id] = ProcessingStatus]
    /\ dirs' = cleanup_old_jobs
    /\ response' = [code |-> 200, job_id |-> job_id]
    /\ UNCHANGED <<pc, cwd, files, idleOfWeb>>

\* GET /status/<job_id>
status(job_id) ==
    /\ dirs' = cleanup_old_jobs
    /\ response' =
           IF processing_jobs[job_id] = None
               THEN [code |-> 404, error |-> "Job not found"]
               ELSE [code |-> 200, job_id |-> job_id,
                     body |-> to_dict(processing_jobs[job_id])]
    /\ UNCHANGED <<pc, cwd, files, processing_jobs, threads, idleOfWeb>>

\* GET /download/<job_id>/<file_type>
download(job_id, file_type) ==
    /\ dirs' = cleanup_old_jobs
    /\ response' =
           IF processing_jobs[job_id] = None
               THEN [code |-> 404, error |-> "Job not found"]
           ELSE IF processing_jobs[job_id].output_files[file_type] = None
               THEN [code |-> 404, error |-> "File not found"]
           ELSE IF ~\E f \in files :
                      /\ f.dir = abspath(job_dir(job_id))
                      /\ f.name = processing_jobs[job_id].output_files[file_type]
               THEN [code |-> 404, error |-> "File not found on server"]
           ELSE [code |-> 200, job_id |-> job_id, file_type |-> file_type]
    /\ UNCHANGED <<pc, cwd, files, processing_jobs, threads, idleOfWeb>>

\* the thread of job_id stands at the given position of process_url
at(job_id, position) ==
    threads[job_id] # None /\ threads[job_id].pc = position

goto(job_id, position) == [threads EXCEPT ![job_id].pc = position]

\* lines 177-181: an exception ends the run
except_handler(job_id, error_message) ==
    /\ processing_jobs' = set_error(job_id, error_message)
    /\ threads' = goto(job_id, "done")
    /\ cwd' = IF threads[job_id].original_dir # None
                  THEN threads[job_id].original_dir
                  ELSE cwd

\* line 88: os.makedirs(job_dir, exist_ok=True)
MakeJobDir(job_id) ==
    /\ at(job_id, "makedirs")
    /\ dirs' = makedirs(job_dir(job_id))
    /\ threads' = goto(job_id, "getcwd")
    /\ UNCHANGED <<pc, cwd, files, processing_jobs, response, idleOfWeb>>

\* line 91: original_dir = os.getcwd()
GetCwd(job_id) ==
    /\ at(job_id, "getcwd")
    /\ threads' = [threads EXCEPT ![job_id].original_dir = cwd,
                                  ![job_id].pc = "chdir"]
    /\ UNCHANGED <<pc, cwd, dirs, files, processing_jobs, response, idleOfWeb>>

\* line 92: os.chdir(job_dir), then the status updates up to "downloading"
ChDir(job_id) ==
    /\ at(job_id, "chdir")
    /\ IF abspath(job_dir(job_id)) \in dirs
           THEN /\ cwd' = abspath(job_dir(job_id))
                /\ processing_jobs' = update(job_id, "downloading", 20)
                /\ threads' = goto(job_id, "download")
           ELSE except_handler(job_id, "FileNotFoundError")
    /\ UNCHANGED <<pc, dirs, files, response, idleOfWeb>>

\* one pipeline tool: reads its input and writes its outputs by relative name
tool(job_id, inputs, outputs, status_after, progress, next) ==
    LET name(t) == file_name(threads[job_id].file_prefix, t) IN
    IF \A t \in inputs : exists_here(name(t))
        THEN /\ files' = write_here({name(t) : t \in outputs}, job_id)
             /\ processing_jobs' = update(job_id, status_after, progress)
             /\ threads' = goto(job_id, next)
             /\ cwd' = cwd
        ELSE /\ except_handler(job_id, "FileNotFoundError")
             /\ files' = files

\* line 118: url2file.download_transcript(video_id, srt_file, language)
DownloadTranscript(job_id) ==
    /\ at(job_id, "download")
    /\ tool(job_id, {}, {"srt"}, "converting", 30, "vtt_to_txt")
    /\ UNCHANGED <<pc, dirs, response, idleOfWeb>>

\* line 126: vtt2txt.vtt_to_txt(srt_file, txt_file)
VttToTxt(job_id) ==
    /\ at(job_id, "vtt_to_txt")
    /\ tool(job_id, {"srt"}, {"txt"}, "excel", 40, "txt_to_xlsx")
    /\ UNCHANGED <<pc, dirs, response, idleOfWeb>>

\* lines 131-140: txt2xlsx.txt_to_xlsx(txt_file, xlsx_file)
TxtToXlsx(job_id) ==
    /\ at(job_id, "txt_to_xlsx")
    /\ IF threads[job_id].options.skip_refinement
           THEN tool(job_id, {"txt"}, {"xlsx"}, "html", 60, "process_xlsx")
           ELSE tool(job_id, {"txt"}, {"xlsx"}, "refining", 50, "refine")
    /\ UNCHANGED <<pc, dirs, response, idleOfWeb>>

\* line 137: refineStartTimes.refine_start_times(xlsx_file, refined_xlsx_file)
RefineStartTimes(job_id) ==
    /\ at(job_id, "refine")
    /\ tool(job_id, {"xlsx"}, {"refined_xlsx"}, "html", 60, "process_xlsx")
    /\ UNCHANGED <<pc, dirs, response, idleOfWeb>>

\* lines 151-161: xlsx2html.process_xlsx(...), then status "completed"
ProcessXlsx(job_id) ==
    /\ at(job_id, "process_xlsx")
    /\ tool(job_id,
            IF threads[job_id].options.skip_refinement
                THEN {"xlsx"} ELSE {"refined_xlsx"},
            {"html", "summary_html", "speaker_summary_md", "meeting_summary_md"},
            "completed", 100, "add_output_file")
    /\ UNCHANGED <<pc, dirs, response, idleOfWeb>>

\* lines 164-172: one status.add_output_file call
AddOutputFile(job_id) ==
    /\ at(job_id, "add_output_file")
    /\ LET order == output_order(threads[job_id].options)
           n == threads[job_id].added + 1
       IN /\ processing_jobs' =
                 [processing_jobs EXCEPT ![job_id].output_files[order[n]] =
                     file_name(threads[job_id].file_prefix, order[n])]
          /\ threads' = [threads EXCEPT
                            ![job_id].added = n,
                            ![job_id].pc = IF n = Len(order)
                                               THEN "chdir_back"
                                               ELSE "add_output_file"]
    /\ UNCHANGED <<pc, cwd, dirs, files, response, idleOfWeb>>

\* line 175: os.chdir(original_dir)
ChDirBack(job_id) ==
    /\ at(job_id, "chdir_back")
    /\ cwd' = threads[job_id].original_dir
    /\ threads' = goto(job_id, "done")
    /\ UNCHANGED <<pc, dirs, files, processing_jobs, response, idleOfWeb>>

\* two jobs submitted to one server process, their threads interleaved
NextWeb ==
    \/ \E job_id \in Jobs : process(job_id)
    \/ \E job_id \in Jobs : MakeJobDir(job_id)
    \/ \E job_id \in Jobs : GetCwd(job_id)
    \/ \E job_id \in Jobs : ChDir(job_id)
    \/ \E job_id \in Jobs : DownloadTranscript(job_id)
    \/ \E job_id \in Jobs : VttToTxt(job_id)
    \/ \E job_id \in Jobs : TxtToXlsx(job_id)
    \/ \E job_id \in Jobs : RefineStartTimes(job_id)
    \/ \E job_id \in Jobs : ProcessXlsx(job_id)
    \/ \E job_id \in Jobs : AddOutputFile(job_id)
    \/ \E job_id \in Jobs : ChDirBack(job_id)

SpecWeb == InitWeb /\ [][NextWeb]_vars

\* one job's thread interleaved with /status and /download requests
PolledJobs == {"job1"}

NextPoll ==
    \/ \E job_id \in PolledJobs : process(job_id)
    \/ \E job_id \in Jobs : status(job_id)
    \/ \E job_id \in Jobs, file_type \in FileTypes : download(job_id, file_type)
    \/ \E job_id \in PolledJobs : MakeJobDir(job_id)
    \/ \E job_id \in PolledJobs : GetCwd(job_id)
    \/ \E job_id \in PolledJobs : ChDir(job_id)
    \/ \E job_id \in PolledJobs : DownloadTranscript(job_id)
    \/ \E job_id \in PolledJobs : VttToTxt(job_id)
    \/ \E job_id \in PolledJobs : TxtToXlsx(job_id)
    \/ \E job_id \in PolledJobs : RefineStartTimes(job_id)
    \/ \E job_id \in PolledJobs : ProcessXlsx(job_id)
    \/ \E job_id \in PolledJobs : AddOutputFile(job_id)
    \/ \E job_id \in PolledJobs : ChDirBack(job_id)

SpecPoll == InitWeb /\ [][NextPoll]_vars

\* the files a finished run leaves when it runs alone
alone_files(job_id) ==
    {[dir |-> job_dir(job_id),
      name |-> file_name(threads[job_id].file_prefix, t),
      job |-> job_id] : t \in Range(output_order(threads[job_id].options))}

\* C23: runs are isolated.  Under every interleaving each run writes only
\* into its own job directory, and a finished run has completed with the
\* files it produces when run alone.
C23_RunsIsolated ==
    /\ \A f \in files : f.dir = job_dir(f.job)
    /\ \A job_id \in Jobs :
           at(job_id, "done") =>
               /\ processing_jobs[job_id].status = "completed"
               /\ alone_files(job_id) \subseteq files

\* C27: a status response that says "completed" lists every file the job
\* produced.
C27_CompletedListsAllFiles ==
    (response # None /\ "body" \in DOMAIN response
        /\ response.body.status = "completed")
    => response.body.output_files
           = Range(output_order(threads[response.job_id].options))


-----------------------------------------------------------------------------
(* Calendar scheduler (send_payloads.py).  A time string is the pair of    *)
(* its whole seconds since midnight and its microseconds; the calendar     *)
(* service keeps, for each attendee, the hours of the day that are busy.   *)

Emails == {"alice@example.com", "bob@example.com"}

Hour == 3600

\* time strings the payload generators write: parser.py keeps the seconds
\* and microseconds of utcnow() (parser.py:99-102)
TimeOf(hour, second, microsecond) ==
    [second |-> hour * Hour + second, microsecond |-> microsecond]

PayloadStarts == {TimeOf(13, 0, 0), TimeOf(13, 0, 27), TimeOf(13, 27, 123456)}

\* lines 91-94: parse the string without its "Z", add timedelta(hours=1),
\* format with timespec="seconds", append "Z"
plus_one_hour(time_str) ==
    [second |-> time_str.second + Hour, microsecond |-> 0]

Before(a, b) ==
    \/ a.second < b.second
    \/ a.second = b.second /\ a.microsecond < b.microsecond

\* service.freebusy().query(body=fbq).execute(): for each queried calendar
\* the busy hours that overlap [timeMin, timeMax)
freebusy_query(fbq) ==
    [calendars |->
        [email \in fbq.items |->
            IF calendar.calendars[email] = None
                THEN None
                ELSE [busy |->
                        {h \in calendar.calendars[email].busy :
                            /\ Before(fbq.timeMin, TimeOf(h + 1, 0, 0))
                            /\ Before(TimeOf(h, 0, 0), fbq.timeMax)}]]]

\* lines 77-87: does any attendee with calendar data have a busy period
RECURSIVE conflict_at(_, _, _)
conflict_at(attendees, fb, i) ==
    IF i > Len(attendees) THEN FALSE
    ELSE LET cal == fb.calendars[attendees[i].email] IN
         IF cal = None THEN conflict_at(attendees, fb, i + 1)
         ELSE IF cal.busy # {} THEN TRUE
         ELSE conflict_at(attendees, fb, i + 1)

\* line 90: a conflicting slot is retried while fallback_attempt < 3
retry_allowed_once_more(fallback_attempt) == fallback_attempt <= 3

retry_allowed(fallback_attempt) == fallback_attempt < 3

\* the id the service gives the event it creates for payload number i
event_id(i) == <<"event", i>>

\* schedule_event(event, fallback_attempt): the value it returns, the event
\* as it leaves it, and the calls it made on the service
RECURSIVE schedule_event(_, _, _)
schedule_event(event, fallback_attempt, i) ==
    LET start == event.preferred_time_range.start
        end == event.preferred_time_range.end
        attendees == event.attendees
        fbq == [timeMin |-> start, timeMax |-> end,
                items |-> {attendees[k].email : k \in DOMAIN attendees}]
        query == [api |-> "freebusy.query", body |-> fbq]
        fb == freebusy_query(fbq)
    IN IF conflict_at(attendees, fb, 1)
           THEN IF retry_allowed(fallback_attempt)
                    THEN LET shifted ==
                                 [event EXCEPT
                                     !.preferred_time_range.start = plus_one_hour(start),
                                     !.preferred_time_range.end = plus_one_hour(end)]
                             rest == schedule_event(shifted, fallback_attempt + 1, i)
                         IN [rest EXCEPT !.requests = <<query>> \o rest.requests]
                    ELSE [returns |-> None, event |-> event, requests |-> <<query>>]
           ELSE LET cal_event ==
                        [summary |-> event.summary,
                         start |-> event.preferred_time_range.start,
                         end |-> event.preferred_time_range.end,
                         attendees |-> attendees]
                IN [returns |-> event_id(i), event |-> event,
                    requests |-> <<query, [api |-> "events.insert", body |-> cal_event]>>]

\* the service stores an inserted event; nobody has answered yet
inserted(cal_event) ==
    [summary |-> cal_event.summary,
     status |-> "confirmed",
     attendees |-> [k \in DOMAIN cal_event.attendees |->
                       [email |-> cal_event.attendees[k].email,
                        responseStatus |-> "needsAction"]]]

MaxEvents == 2

AttendeeLists ==
    {<<[email |-> "alice@example.com"]>>,
     <<[email |-> "alice@example.com"], [email |-> "bob@example.com"]>>}

\* payloads of output/calendar_payloads.json after the key normalisation
Payloads ==
    [summary : {"Sync"},
     preferred_time_range :
        {[start |-> s, end |-> [s EXCEPT !.second = @ + Hour]] : s \in PayloadStarts},
     attendees : AttendeeLists]

\* a payload without its time range
InvalidPayload ==
    [summary |-> "Sync", attendees |-> <<[email |-> "alice@example.com"]>>]

\* calendars the service has no data for
UnknownCalendars == {{}, {"bob@example.com"}}

BusyHours == {{}, {13}, {13, 14}, {13, 14, 15}, 13..16, 13..17}

IdleWebAndText ==
    /\ IdleMatch
    /\ IdleSeg
    /\ IdleVer
    /\ IdleCodec
    /\ IdleWeb

InitSchedule ==
    /\ pc = "scheduling"
    /\ \E valid \in SeqsUpTo(Payloads, MaxEvents), invalid \in SUBSET (1..MaxEvents) :
           events = [i \in DOMAIN valid |->
                        IF i \in invalid THEN InvalidPayload ELSE valid[i]]
    /\ event_index = 0
    /\ created_event_ids = <<>>
    /\ \E alice \in BusyHours, bob \in BusyHours, unknown \in UnknownCalendars :
           calendar =
               [calendars |->
                   [email \in Emails |->
                       IF email \in unknown THEN None
                       ELSE IF email = "alice@example.com" THEN [busy |-> alice]
                       ELSE [busy |-> bob]],
                events |-> <<>>]
    /\ requests = <<>>
    /\ attempt = 0
    /\ all_done = FALSE
    /\ REMINDER_SENT = {}
    /\ IdleWebAndText

idleOfCal == <<matchVars, segVars, verVars, codecVars, webVars>>

required_keys == {"summary", "preferred_time_range", "attendees"}

\* lines 123-127: an event without the required keys is skipped
SkipInvalidEvent ==
    /\ pc = "scheduling"
    /\ event_index < Len(events)
    /\ ~(required_keys \subseteq DOMAIN events[event_index + 1])
    /\ event_index' = event_index + 1
    /\ UNCHANGED <<pc, events, created_event_ids, calendar, requests, attempt,
                   all_done, REMINDER_SENT, idleOfCal>>

\* lines 129-131: eid = schedule_event(event); kept when an event was created
ScheduleEvent ==
    /\ pc = "scheduling"
    /\ event_index < Len(events)
    /\ required_keys \subseteq DOMAIN events[event_index + 1]
    /\ LET i == event_index + 1
           call == schedule_event(events[i], 0, i)
           eid == call.returns
           last == call.requests[Len(call.requests)]
       IN /\ events' = [events EXCEPT ![i] = call.event]
          /\ requests' = requests \o call.requests
          /\ created_event_ids' =
                 IF eid # None THEN Append(created_event_ids, eid)
                               ELSE created_event_ids
          /\ calendar' =
                 IF eid # None
                     THEN [calendar EXCEPT
                              !.events = Append(@, [id |-> eid] @@ inserted(last.body))]
                     ELSE calendar
    /\ event_index' = event_index + 1
    /\ UNCHANGED <<pc, attempt, all_done, REMINDER_SENT, idleOfCal>>

NextSchedule == SkipInvalidEvent \/ ScheduleEvent

SpecSchedule == InitSchedule /\ [][NextSchedule]_vars


\* the calls the step made on the service
CallsMade == SubSeq(requests', Len(requests) + 1, Len(requests'))

FreeBusyChecks == SelectSeq(CallsMade, LAMBDA r : r.api = "freebusy.query")

\* the slot a check asked about was in conflict
Conflicting(payload, check) ==
    conflict_at(payload.attendees, freebusy_query(check.body), 1)

\* at most 4 checks, and no event is created when 4 slots are in conflict
RetryBound(payload) ==
    /\ Len(FreeBusyChecks) \in 1..4
    /\ (/\ Len(FreeBusyChecks) = 4
        /\ \A k \in 1..4 : Conflicting(payload, FreeBusyChecks[k]))
       => /\ \A k \in DOMAIN CallsMade : CallsMade[k].api # "events.insert"
          /\ created_event_ids' = created_event_ids
          /\ calendar'.events = calendar.events

HoursLater(time_str, hours) == [time_str EXCEPT !.second = @ + hours * Hour]

\* C29 as stated: schedule_event makes at most 4 free/busy checks, check
\* number k asks about the requested slot moved by exactly k-1 hours, and
\* when all 4 slots are in conflict no calendar event is created.
C29_RetriesShiftExactlyOneHour ==
    [][event_index' = event_index + 1 /\ requests' # requests =>
        LET payload == events[event_index + 1] IN
        /\ RetryBound(payload)
        /\ \A k \in DOMAIN FreeBusyChecks :
               /\ FreeBusyChecks[k].body.timeMin
                      = HoursLater(payload.preferred_time_range.start, k - 1)
               /\ FreeBusyChecks[k].body.timeMax
                      = HoursLater(payload.preferred_time_range.end, k - 1)]_vars

WholeSeconds(time_str) == [time_str EXCEPT !.microsecond = 0]

\* C29 amended: schedule_event makes at most 4 free/busy checks; the first
\* asks about the requested slot, check number k > 1 about the requested
\* slot moved by k-1 hours with the fraction of a second dropped; when all
\* 4 slots are in conflict no calendar event is created.
C29_RetriesShiftOneHourWholeSeconds ==
    [][event_index' = event_index + 1 /\ requests' # requests =>
        LET payload == events[event_index + 1] IN
        /\ RetryBound(payload)
        /\ FreeBusyChecks[1].body.timeMin = payload.preferred_time_range.start
        /\ FreeBusyChecks[1].body.timeMax = payload.preferred_time_range.end
        /\ \A k \in DOMAIN FreeBusyChecks :
               k > 1 =>
                   /\ FreeBusyChecks[k].body.timeMin
                          = WholeSeconds(HoursLater(payload.preferred_time_range.start, k - 1))
                   /\ FreeBusyChecks[k].body.timeMax
                          = WholeSeconds(HoursLater(payload.preferred_time_range.end, k - 1))]_vars

\* an event whose time carries microseconds was given up after 4 checks
C29_Witness ==
    /\ event_index = 1
    /\ Len(requests) = 4
    /\ \A k \in 1..4 : requests[k].api = "freebusy.query"
    /\ requests[1].body.timeMin.microsecond # 0
    /\ requests[4].body.timeMin.microsecond = 0
    /\ created_event_ids = <<>>


-----------------------------------------------------------------------------
(* RSVP polling (send_payloads.py, lines 133-165)                          *)

\* range(54): polling rounds, and the round from which reminders are sent
PollingRounds == 54
ReminderRound == 18

\* rounds explored
MaxRounds == 3

\* the payloads that were scheduled: every attendee was free
InitRsvp ==
    /\ pc = "polling"
    /\ \E n \in 1..MaxEvents :
       \E lists \in [1..n -> AttendeeLists] :
           /\ events = [i \in 1..n |->
                           [summary |-> "Sync",
                            preferred_time_range |->
                                [start |-> TimeOf(13, 0, 0), end |-> TimeOf(14, 0, 0)],
                            attendees |-> lists[i]]]
           /\ event_index = 0
           /\ created_event_ids = [i \in 1..n |-> event_id(i)]
    /\ LET cal_event(i) ==
               [summary |-> events[i].summary,
                start |-> events[i].preferred_time_range.start,
                end |-> events[i].preferred_time_range.end,
                attendees |-> events[i].attendees]
       IN /\ calendar =
                 [calendars |-> [email \in Emails |-> [busy |-> {}]],
                  events |-> [i \in DOMAIN events |->
                                 [id |-> event_id(i)] @@ inserted(cal_event(i))]]
          /\ requests =
                 Flatten([i \in DOMAIN events |->
                     <<[api |-> "freebusy.query",
                        body |-> [timeMin |-> events[i].preferred_time_range.start,
                                  timeMax |-> events[i].preferred_time_range.end,
                                  items |-> {events[i].attendees[k].email :
                                                k \in DOMAIN events[i].attendees}]],
                       [api |-> "events.insert", body |-> cal_event(i)]>>])
    /\ attempt = 0
    /\ all_done = TRUE
    /\ REMINDER_SENT = {}
    /\ IdleWebAndText

\* the service's record of the event with this id
stored(eid) == CHOOSE k \in DOMAIN calendar.events : calendar.events[k].id = eid

\* lines 148-157 over the statuses from position k: whether the event is to
\* be deleted, the all_done flag and the reminders sent
RECURSIVE check_statuses(_, _, _, _, _)
check_statuses(eid, attendees, k, done, sent) ==
    IF k > Len(attendees)
        THEN [delete |-> FALSE, all_done |-> done, REMINDER_SENT |-> sent]
    ELSE IF attendees[k].responseStatus = "declined"
        THEN [delete |-> TRUE, all_done |-> done, REMINDER_SENT |-> sent]
    ELSE IF attendees[k].responseStatus = "needsAction"
        THEN check_statuses(eid, attendees, k + 1, FALSE,
                 IF attempt >= ReminderRound
                     THEN sent \cup {<<eid, attendees[k].email>>}
                     ELSE sent)
    ELSE check_statuses(eid, attendees, k + 1, done, sent)

get_request(eid) == [api |-> "events.get", eventId |-> eid]
delete_request(eid) == [api |-> "events.delete", eventId |-> eid]

\* lines 141-157: one event of the round.  The service either answers a
\* request about a deleted event (a get returns the cancelled event) or
\* refuses it with an HttpError, which ends the script.
PollEvent ==
    /\ pc = "polling"
    /\ event_index < Len(created_event_ids)
    /\ LET eid == created_event_ids[event_index + 1]
           ev == calendar.events[stored(eid)]
           gone == ev.status = "cancelled"
           result == check_statuses(eid, ev.attendees, 1, all_done, REMINDER_SENT)
       IN \/ /\ gone
             /\ requests' = Append(requests, get_request(eid))
             /\ pc' = "HttpError"
             /\ UNCHANGED <<event_index, calendar, all_done, REMINDER_SENT>>
          \/ /\ ~result.delete
             /\ requests' = Append(requests, get_request(eid))
             /\ all_done' = result.all_done
             /\ REMINDER_SENT' = result.REMINDER_SENT
             /\ event_index' = event_index + 1
             /\ UNCHANGED <<pc, calendar>>
          \/ /\ result.delete
             /\ requests' = requests \o <<get_request(eid), delete_request(eid)>>
             /\ all_done' = result.all_done
             /\ REMINDER_SENT' = result.REMINDER_SENT
             /\ \/ /\ calendar' = [calendar EXCEPT
                                      !.events[stored(eid)].status = "cancelled"]
                   /\ event_index' = event_index + 1
                   /\ pc' = pc
                \/ /\ gone
                   /\ pc' = "HttpError"
                   /\ UNCHANGED <<event_index, calendar>>
    /\ UNCHANGED <<events, created_event_ids, attempt, idleOfCal>>

\* lines 159-165: the round ends; the loop stops or sleeps ten minutes
EndRound ==
    /\ pc = "polling"
    /\ event_index = Len(created_event_ids)
    /\ IF all_done
           THEN pc' = "confirmed" /\ UNCHANGED <<attempt, all_done, event_index>>
       ELSE IF attempt + 1 = PollingRounds
           THEN pc' = "timeout" /\ UNCHANGED <<attempt, all_done, event_index>>
       ELSE /\ attempt + 1 < MaxRounds
            /\ attempt' = attempt + 1
            /\ all_done' = TRUE
            /\ event_index' = 0
            /\ pc' = pc
    /\ UNCHANGED <<events, created_event_ids, calendar, requests,
                   REMINDER_SENT, idleOfCal>>

\* an attendee answers the invitation
Respond ==
    /\ pc = "polling"
    /\ \E k \in DOMAIN calendar.events :
       \E a \in DOMAIN calendar.events[k].attendees :
       \E answer \in {"accepted", "declined"} :
           /\ calendar.events[k].status # "cancelled"
           /\ calendar.events[k].attendees[a].responseStatus = "needsAction"
           /\ calendar' = [calendar EXCEPT
                              !.events[k].attendees[a].responseStatus = answer]
    /\ UNCHANGED <<pc, events, event_index, created_event_ids, requests,
                   attempt, all_done, REMINDER_SENT, idleOfCal>>

NextRsvp == PollEvent \/ EndRound \/ Respond

SpecRsvp == InitRsvp /\ [][NextRsvp]_vars

\* positions of the delete requests for an event
Deletions(eid) ==
    {k \in DOMAIN requests : requests[k] = delete_request(eid)}

\* C30: an event deleted after a decline is deleted exactly once, and no
\* later get or delete request is issued for it.
C30_DeletedOnceThenLeftAlone ==
    \A i \in DOMAIN created_event_ids :
        LET eid == created_event_ids[i] IN
        \A d \in Deletions(eid) :
            \A k \in DOMAIN requests :
                k > d => requests[k] \notin {get_request(eid), delete_request(eid)}


-----------------------------------------------------------------------------
(* Topic detection of txt2xlsx.py, next to the segmenter it simulates      *)

\* the entries txt_to_xlsx builds from the transcript lines (lines 165-182)
txt_data(sheet) ==
    [i \in DOMAIN sheet |->
        [Seconds |-> sheet[i].Seconds,
         Time |-> parse_timestamp(0, 0, sheet[i].Seconds).formatted,
         Name |-> sheet[i].Name,
         Text |-> sheet[i].Text]]

\* sorted(data, key=lambda x: x['Seconds'])
sorted_by_Seconds(data) ==
    LET keyed == [i \in DOMAIN data |-> [seconds |-> data[i].Seconds, entry |-> data[i]]]
        in_order == StableSort(keyed)
    IN  [i \in DOMAIN data |-> in_order[i].entry]

\* lines 101-107 and 117-123: a topic that starts with entry number i
started_topic(entry, i) ==
    [start_idx |-> i,
     start_time |-> entry.Time,
     start_seconds |-> entry.Seconds,
     text |-> <<entry.Text>>,
     indices |-> <<i>>]

\* lines 92-126 from position i (entry number i - 1) of the sorted entries
RECURSIVE detect_pass(_, _, _)
detect_pass(sorted_entries, i, st) ==
    IF i > Len(sorted_entries) THEN st
    ELSE LET entry == sorted_entries[i]
             speaker == entry.Name
             seconds == entry.Seconds
         IN  IF speaker \notin DOMAIN st.speaker_topics
                 THEN detect_pass(sorted_entries, i + 1,
                          [speaker_topics |-> st.speaker_topics @@ (speaker :> <<>>),
                           current_topics |->
                               st.current_topics @@ (speaker :> started_topic(entry, i - 1))])
             ELSE LET current == st.current_topics[speaker]
                      last_seconds ==
                          sorted_entries[current.indices[Len(current.indices)] + 1].Seconds
                      time_gap == seconds - last_seconds
                  IN  IF time_gap > GapThreshold
                          THEN detect_pass(sorted_entries, i + 1,
                                   [speaker_topics |->
                                        [st.speaker_topics EXCEPT
                                            ![speaker] = Append(@, current)],
                                    current_topics |->
                                        [st.current_topics EXCEPT
                                            ![speaker] = started_topic(entry, i - 1)]])
                          ELSE detect_pass(sorted_entries, i + 1,
                                   [st EXCEPT
                                       !.current_topics[speaker].text = Append(@, entry.Text),
                                       !.current_topics[speaker].indices = Append(@, i - 1)])

\* detect_speaker_topics(data): speaker -> list of topics
detect_speaker_topics(data) ==
    LET st == detect_pass(sorted_by_Seconds(data), 1,
                          [speaker_topics |-> EmptyFunction,
                           current_topics |-> EmptyFunction])
    IN  [speaker \in DOMAIN st.speaker_topics |->
            Append(st.speaker_topics[speaker], st.current_topics[speaker])]

\* txt2xlsx.py line 194, on the transcript the sheet was written from
DetectSpeakerTopics ==
    /\ pc = "segmented"
    /\ speaker_topics' = detect_speaker_topics(txt_data(rows))
    /\ pc' = "detected"
    /\ UNCHANGED <<transcript_data, confirmed_topics, matchVars, verVars,
                   codecVars, webVars, calVars>>

NextDetect == LoadData \/ Segment \/ DetectSpeakerTopics

SpecDetect == InitSegment /\ [][NextDetect]_vars

\* the seconds of the members of a topic of detect_speaker_topics
DetectedMemberSeconds(topic) ==
    LET sorted_entries == sorted_by_Seconds(txt_data(rows))
    IN  [j \in DOMAIN topic.indices |-> sorted_entries[topic.indices[j] + 1].Seconds]

\* C24: for every transcript both segmenters give each speaker the same
\* topics: the same number of topics, and topic by topic the same start
\* seconds and the same member utterances.
C24_SameTopicBoundaries ==
    pc = "detected" =>
        /\ DOMAIN speaker_topics = DOMAIN confirmed_topics
        /\ \A speaker \in DOMAIN speaker_topics :
               /\ Len(speaker_topics[speaker]) = Len(confirmed_topics[speaker])
               /\ \A k \in DOMAIN speaker_topics[speaker] :
                      LET detected == speaker_topics[speaker][k]
                          tracked == confirmed_topics[speaker][k]
                      IN  /\ detected.start_seconds = tracked.start_seconds
                          /\ detected.text = tracked.texts
                          /\ DetectedMemberSeconds(detected)
                                 = [j \in DOMAIN tracked.occurrences |->
                                       tracked.occurrences[j].seconds]


-----------------------------------------------------------------------------
(* refine_from_summaries (refineStartTimes.py, lines 321-443)              *)

MaxTopics == 2

\* topics the heading pattern extracts from a summary (lines 366-393)
TopicInfos == [topic : {"Budget", "Index"}, speaker : Names, content : TopicTexts]

\* lines 398-409: the metadata columns are added, their cells empty ("" for a
\* missing title, None for a missing text, NaN for a missing number)
with_metadata_columns(df) ==
    [i \in DOMAIN df |->
        df[i] @@ [Topic |-> "", Topic_Text |-> None,
                  Original_Seconds |-> df[i].Seconds, Matched_Seconds |-> NaN]]

\* lines 417-432: the topics from number k on are matched and written
RECURSIVE process_topics(_, _, _, _)
process_topics(df, topic_list, entries, k) ==
    IF k > Len(topic_list) THEN df
    ELSE LET topic_info == topic_list[k]
             match == find_best_timestamp_match(topic_info.content,
                                                topic_info.speaker, entries)
         IN  IF match = None
                 THEN process_topics(df, topic_list, entries, k + 1)
                 ELSE process_topics(
                          [df EXCEPT ![match.row_index + 1] =
                              [@ EXCEPT !.Topic = topic_info.topic,
                                        !.Topic_Text = topic_info.content,
                                        !.Matched_Seconds = match.seconds]],
                          topic_list, entries, k + 1)

\* refine_from_summaries after the sheet was read: the summary's topics are
\* extracted, matched and written to the table
RefineFromSummaries ==
    /\ pc = "loaded_refine"
    /\ \E topic_list \in SeqsUpTo(TopicInfos, MaxTopics) :
           /\ summary_topics' = topic_list
           /\ rows' = process_topics(with_metadata_columns(rows), topic_list,
                                     transcript_entries, 1)
    /\ pc' = "refined_from_summaries"
    /\ UNCHANGED <<transcript_entries, topic_ref, best_match, batches, segVars, verVars,
                   codecVars, webVars, calVars>>

NextSummaries == LoadRefine \/ RefineFromSummaries

SpecSummaries == InitMatch /\ [][NextSummaries]_vars

\* C25: after refine_from_summaries every topic of the summary whose
\* speaker has a transcript entry is recorded on some row of the table, with
\* its title, its text and matched seconds.
C25_EveryTopicRecorded ==
    pc = "refined_from_summaries" =>
        \A k \in DOMAIN summary_topics :
            (\E e \in DOMAIN transcript_entries :
                 transcript_entries[e].name = summary_topics[k].speaker)
            => \E i \in DOMAIN rows :
                   /\ rows[i].Topic = summary_topics[k].topic
                   /\ rows[i].Topic_Text = summary_topics[k].content
                   /\ rows[i].Matched_Seconds # NaN


-----------------------------------------------------------------------------
(* Topics of a batch summary (utils.py, lines 372-487)                     *)

\* best_match.get('matched_seconds', best_match.get('seconds'))
matched_seconds_of(match) ==
    IF "matched_seconds" \in DOMAIN match THEN match.matched_seconds
                                          ELSE match.seconds

\* best_match.get('matched_time_str', seconds_to_time_str(matched_seconds))
matched_time_str_of(match) ==
    IF "matched_time_str" \in DOMAIN match
        THEN match.matched_time_str
        ELSE TimeStrText(seconds_to_time_str(matched_seconds_of(match)))

\* the Panopto link of lines 425 and 485
video_link_of(video_id, timestamp_seconds) ==
    [id |-> video_id, start |-> timestamp_seconds]

\* lines 395-444 for one heading match; a heading without a timestamp has
\* timestamp None, and video_id is "" when no video id was given
extract_topic(heading, video_id, data, refine_usable) ==
    LET timestamp == heading.timestamp
        decoded_seconds == time_str_to_seconds(timestamp).returns
        match == utils_find_best_timestamp_match(heading.content, heading.speaker,
                                                 data, refine_usable)
        timestamp_seconds ==
            IF data # <<>> /\ match # None THEN matched_seconds_of(match)
                                           ELSE decoded_seconds
    IN  IF timestamp = None
            THEN [topic |-> heading.topic, speaker |-> heading.speaker,
                  timestamp |-> None, timestamp_seconds |-> NaN,
                  video_link |-> None, content |-> heading.content]
            ELSE [topic |-> heading.topic, speaker |-> heading.speaker,
                  timestamp |-> timestamp, timestamp_seconds |-> timestamp_seconds,
                  video_link |-> IF video_id # ""
                                     THEN video_link_of(video_id, timestamp_seconds)
                                     ELSE None,
                  content |-> heading.content]

\* utils.extract_topics_from_summary over the heading matches of the summary
extract_topics_from_summary(headings, video_id, data, refine_usable) ==
    [k \in DOMAIN headings |-> extract_topic(headings[k], video_id, data, refine_usable)]

\* lines 459-485 for one topic
update_topic(topic, data, refine_usable) ==
    LET match == utils_find_best_timestamp_match(topic.content, topic.speaker,
                                                 data, refine_usable)
    IN  IF match = None \/ topic.timestamp_seconds = matched_seconds_of(match)
            THEN topic
            ELSE [topic EXCEPT
                     !.timestamp_seconds = matched_seconds_of(match),
                     !.timestamp = matched_time_str_of(match),
                     !.video_link =
                         IF topic.video_link # None
                             THEN video_link_of(topic.video_link.id,
                                                matched_seconds_of(match))
                             ELSE None]

\* utils.update_speaker_timestamps_for_topics
update_speaker_timestamps_for_topics(topic_list, data, refine_usable) ==
    [k \in DOMAIN topic_list |-> update_topic(topic_list[k], data, refine_usable)]

\* timestamps and contents of the headings of a batch summary
HeadingSeconds == {45, 120}

HeadingContents == {<<"the", "budget", "budget">>, <<"--", "index">>}

Headings ==
    [topic : {"Budget"}, speaker : Names,
     timestamp : {TimeStrText(seconds_to_time_str(s)) : s \in HeadingSeconds},
     content : HeadingContents]

\* a caller extracts the topics of a summary; with_data tells whether it
\* hands the transcript to the extraction
ExtractTopics ==
    /\ pc = "loaded_utils"
    /\ \E stamped \in SeqsUpTo(Headings, MaxTopics) :
       \E unstamped \in SUBSET DOMAIN stamped :
       \E video_id \in {"", "vid"}, with_data \in BOOLEAN, refine_usable \in BOOLEAN :
           summary_topics' =
               extract_topics_from_summary(
                   [k \in DOMAIN stamped |->
                       IF k \in unstamped
                           THEN [stamped[k] EXCEPT !.timestamp = None]
                           ELSE stamped[k]],
                   video_id,
                   IF with_data THEN transcript_entries ELSE <<>>,
                   refine_usable)
    /\ pc' = "extracted"
    /\ UNCHANGED <<rows, transcript_entries, topic_ref, best_match, batches, segVars,
                   verVars, codecVars, webVars, calVars>>

\* the caller then updates the topics against the transcript
UpdateSpeakerTimestamps ==
    /\ pc = "extracted"
    /\ \E refine_usable \in BOOLEAN :
           summary_topics' =
               update_speaker_timestamps_for_topics(summary_topics,
                                                    transcript_entries, refine_usable)
    /\ pc' = "updated"
    /\ UNCHANGED <<rows, transcript_entries, topic_ref, best_match, batches, segVars,
                   verVars, codecVars, webVars, calVars>>

\* sheets of the transcript the summary was written from
TranscriptRows ==
    [Name : Names, Seconds : MatchSeconds, Text : {<<"the", "budget", "Budget">>}]

InitTopics ==
    /\ pc = "start"
    /\ rows \in SeqsUpTo(TranscriptRows, MaxRows)
    /\ transcript_entries = <<>>
    /\ topic_ref = None
    /\ best_match = None
    /\ summary_topics = <<>>
    /\ batches = <<>>
    /\ IdleSeg
    /\ IdleVer
    /\ IdleCodec
    /\ IdleWeb
    /\ IdleCal

NextTopics == LoadUtils \/ ExtractTopics \/ UpdateSpeakerTimestamps

SpecTopics == InitTopics /\ [][NextTopics]_vars

\* C26: in every topic returned by extract_topics_from_summary and by
\* update_speaker_timestamps_for_topics that has a timestamp, the display
\* string decodes to timestamp_seconds.
C26_TimestampDecodesToSeconds ==
    pc \in {"extracted", "updated"} =>
        \A k \in DOMAIN summary_topics :
            summary_topics[k].timestamp # None =>
                time_str_to_seconds(summary_topics[k].timestamp)
                    = Return(summary_topics[k].timestamp_seconds)


-----------------------------------------------------------------------------
(* create_time_batches (utils.py, lines 219-272)                           *)

\* the while loop of lines 255-270 from batch_start on
RECURSIVE batch_loop(_, _, _, _, _)
batch_loop(data, batch_start, end_time, batch_size_seconds, acc) ==
    IF ~(batch_start < end_time) THEN acc
    ELSE LET batch_end == Min(batch_start + batch_size_seconds, end_time)
             batch_entries ==
                 SelectSeq(data, LAMBDA entry :
                     batch_start <= entry.seconds /\ entry.seconds < batch_end)
         IN  batch_loop(data, batch_end, end_time, batch_size_seconds,
                        IF batch_entries # <<>> THEN Append(acc, batch_entries)
                                                ELSE acc)

create_time_batches(data, batch_size_minutes) ==
    IF data = <<>> THEN <<>>
    ELSE LET start_time == data[1].seconds
             last == data[Len(data)]
             end_time == IF "end_seconds" \in DOMAIN last THEN last.end_seconds
                                                          ELSE last.seconds + 60
             batch_size_seconds == batch_size_minutes * 60
             total_duration == end_time - start_time
         IN  IF total_duration <= batch_size_seconds THEN <<data>>
             ELSE batch_loop(data, start_time, end_time, batch_size_seconds, <<>>)

MaxEntries == 3

BatchSeconds == {0, 59, 60, 130, 200}

\* how long the last utterance lasts when the sheet has an End_Seconds column
LastDurations == {0, 1, 100}

BatchMinutes == {1, 2}

\* transcripts as extract_transcript_data returns them: sorted by seconds
SortedTranscripts ==
    {t \in SeqsUpTo(BatchSeconds, MaxEntries) :
        \A i \in DOMAIN t : i > 1 => t[i - 1] <= t[i]}

InitBatches ==
    /\ pc = "start"
    /\ \E t \in SortedTranscripts :
          \/ transcript_entries =
                 [i \in DOMAIN t |-> [seconds |-> t[i], row_index |-> i - 1]]
          \/ /\ t # <<>>
             /\ \E d \in LastDurations :
                    transcript_entries =
                        [i \in DOMAIN t |->
                            IF i = Len(t)
                                THEN [seconds |-> t[i], row_index |-> i - 1,
                                      end_seconds |-> t[i] + d]
                                ELSE [seconds |-> t[i], row_index |-> i - 1]]
    /\ rows = <<>>
    /\ topic_ref = None
    /\ best_match = None
    /\ summary_topics = <<>>
    /\ batches = <<>>
    /\ IdleSeg
    /\ IdleVer
    /\ IdleCodec
    /\ IdleWeb
    /\ IdleCal

CreateTimeBatches ==
    /\ pc = "start"
    /\ \E batch_size_minutes \in BatchMinutes :
           batches' = create_time_batches(transcript_entries, batch_size_minutes)
    /\ pc' = "batched"
    /\ UNCHANGED <<rows, transcript_entries, topic_ref, best_match,
                   summary_topics, segVars, verVars, codecVars, webVars, calVars>>

NextBatches == CreateTimeBatches

SpecBatches == InitBatches /\ [][NextBatches]_vars

\* C28: the batches partition the transcript: every entry is in exactly one
\* returned batch.
C28_BatchesPartitionTranscript ==
    pc = "batched" =>
        \A i \in DOMAIN transcript_entries :
            Cardinality({<<b, k>> \in (DOMAIN batches) \X (1..MaxEntries) :
                            /\ k \in DOMAIN batches[b]
                            /\ batches[b][k] = transcript_entries[i]}) = 1

====
